---- MODULE Spec2Model ----
(***************************************************************************)
(* A model of the mini-game collection (NewKidGame2025): the React         *)
(* components' state hooks are the variables, every event handler and      *)
(* every continuation of an awaited promise is one action.  One component  *)
(* is mounted at a time (App's `game` state); the hooks of the components  *)
(* that are not mounted keep their construction values.                    *)
(*                                                                         *)
(* Conventions.  A nullable value (T | null) is the empty tuple None or    *)
(* the one-element tuple Some(x).  JavaScript arrays are sequences; an     *)
(* index stored by the program keeps the program's 0-based numbering.      *)
(* Text compared only for equality is a string; text the program searches  *)
(* or trims is a sequence of words or characters.                          *)
(***************************************************************************)
EXTENDS Integers, Sequences, FiniteSets, TLC

VARIABLES
    game,            \* the mounted game component (App.game)
    theme,           \* useState theme (NoiSo, MaHoaPhepTinh, DienKiTu)
    isLoading,       \* useState isLoading of the AI-assisted games
    error,           \* useState error: None or Some(message)
    pending,         \* generate invocations suspended at their await, in issue order
    puzzle,          \* TimHinhDung: None or Some(PuzzleData)
    selection,       \* TimHinhDung: None or Some([index, isCorrect])
    leftItems,       \* matching games: left column
    rightItems,      \* matching games: right column
    selectedLeft,    \* matching games: None or Some(left item)
    connections,     \* matching games: Record<string, string>, left id -> right id
    legend,          \* symbol games: the legend
    problems,        \* sum and symbol games: the problems
    userAnswers,     \* answer games: Record<number, string>, problem id -> text
    patterns,        \* ToTracNghiem: the rows (model, userGrid)
    currentTemplate, \* ToMauManhGhep: None or Some(template)
    referenceColors, \* ToMauManhGhep: colours of the reference picture
    puzzles,         \* ToMauManhGhep: the four colourable instances
    selectedColor,   \* ToMauManhGhep: None or Some(colour)
    nodes,           \* MeCungToanHoc: the maze nodes
    mazeConnections, \* MeCungToanHoc: the maze edges (connections in the source)
    printContainers, \* off-screen print containers attached to document.body
    rasterizing,     \* html2canvas promises not yet settled
    saved,           \* documents handed to pdf.save, in order
    random,          \* the numbers Math.random() returns next, in tenths
    type,            \* MatchingGame: None or Some(the type prop)
    checked,         \* MatchingGame: useState checked
    canvasDisplay,   \* MatchingGame: style.display of the live canvas
    layout           \* the size of the bitmap html2canvas draws in this window

genVars == <<theme, isLoading, error, pending>>
patternVars == <<puzzle, selection>>
matchVars == <<leftItems, rightItems, selectedLeft, connections>>
answerVars == <<legend, problems, userAnswers>>
colorVars == <<currentTemplate, referenceColors, puzzles, selectedColor>>
mazeVars == <<nodes, mazeConnections>>
exportVars == <<printContainers, rasterizing, saved>>
legacyVars == <<type, checked, canvasDisplay>>

vars == <<game, genVars, patternVars, matchVars, answerVars, patterns, colorVars,
          mazeVars, exportVars, random, legacyVars, layout>>

-----------------------------------------------------------------------------
(* Nullable values and array helpers                                       *)

None == <<>>

Some(x) == <<x>>

IsSome(o) == o # <<>>

Get(o) == o[1]

\* the empty object {}
EmptyMap == [x \in {} |-> x]

\* the object spread {...prev, [key]: value}
Put(prev, key, value) ==
    [k \in DOMAIN prev \cup {key} |-> IF k = key THEN value ELSE prev[k]]

\* Array.prototype.indexOf: the 0-based index of the first occurrence, or -1
IndexOf(arr, x) ==
    IF \E i \in DOMAIN arr : arr[i] = x
    THEN (CHOOSE i \in DOMAIN arr : arr[i] = x /\ \A j \in 1..(i - 1) : arr[j] # x) - 1
    ELSE -1

\* String.prototype.includes on a text held as a sequence of words
Includes(message, word) == \E i \in DOMAIN message : message[i] = word

\* String.prototype.toUpperCase, on the words the model draws messages from
UpperWord(w) ==
    CASE w = "resource_exhausted" -> "RESOURCE_EXHAUSTED"
      [] w = "failed" -> "FAILED"
      [] w = "invalid" -> "INVALID"
      [] OTHER -> w

ToUpperCase(message) == [i \in DOMAIN message |-> UpperWord(message[i])]

\* String.prototype.trim on a text held as a sequence of characters
RECURSIVE TrimStart(_)
TrimStart(s) == IF s # <<>> /\ Head(s) = " " THEN TrimStart(Tail(s)) ELSE s

RECURSIVE TrimEnd(_)
TrimEnd(s) ==
    IF s # <<>> /\ s[Len(s)] = " " THEN TrimEnd(SubSeq(s, 1, Len(s) - 1)) ELSE s

Trim(s) == TrimEnd(TrimStart(s))

Min(a, b) == IF a < b THEN a ELSE b

Max(a, b) == IF a > b THEN a ELSE b

RemoveAt(seq, i) == SubSeq(seq, 1, i - 1) \o SubSeq(seq, i + 1, Len(seq))

\* Array.prototype.map with the 0-based index: f(item, i)
MapIndexed(arr, f(_, _)) == [i \in DOMAIN arr |-> f(arr[i], i - 1)]

-----------------------------------------------------------------------------
(* Bounds of the model                                                     *)

\* generate invocations that may be suspended at the same time
MaxPending == 2

\* shuffleArray rotates its argument by up to ShuffleSpan places
ShuffleSpan == 1

\* the user clicks among the first ClickSpan items of a column, row or list
ClickSpan == 1

\* in a matching game the user clicks among the first MatchSpan items of a column
MatchSpan == 2

\* the length of the cycle of numbers Math.random() returns
RandomLen == 3

\* the numbers, in tenths, Math.random() may return
RandomTenths == {0, 3, 6, 9}

\* the texts the user may leave in a theme input
ThemeTexts == { <<>>, <<" ">>, <<" ", "a">> }

-----------------------------------------------------------------------------
(* utils (src/unnamed/part_000)                                            *)

\* the k-th number Math.random() returns next from the stream rnd, in tenths;
\* the stream is cyclic
Draw(rnd, k) == rnd[((k - 1) % Len(rnd)) + 1]

\* the stream after k numbers were read
Advance(rnd, k) == [i \in DOMAIN rnd |-> rnd[((i - 1 + k) % Len(rnd)) + 1]]

\* getRandomInt(min, max) for the number r / 10 returned by Math.random():
\* Math.floor(Math.random() * (max - min + 1)) + min
getRandomInt(r, min, max) == ((r * (max - min + 1)) \div 10) + min

\* Math.random() > 0.5 for the number r / 10
MoreThanHalf(r) == r > 5

\* the decimal digits of a number below 100, as `${n}` writes them
DigitChars == <<"0", "1", "2", "3", "4", "5", "6", "7", "8", "9">>

NumberToString(n) ==
    IF n < 10 THEN <<DigitChars[n + 1]>>
    ELSE <<DigitChars[(n \div 10) + 1], DigitChars[(n % 10) + 1]>>

\* shuffleArray(array): a copy of the array in a random order; the model draws
\* the orders that rotate the array by up to ShuffleSpan places, and does
\* not count the numbers the comparator reads from Math.random()
shuffleArray(array) ==
    { [i \in DOMAIN array |-> array[((i - 1 + k) % Len(array)) + 1]] :
         k \in 0..Min(ShuffleSpan, Len(array) - 1) }

-----------------------------------------------------------------------------
(* Outcomes of a remote generateContent call.  A call either rejects with  *)
(* a thrown value (an Error with a message, or a value that is no Error),  *)
(* or resolves with a text that JSON.parse reads or rejects.               *)

RateLimitMessages == { <<"429", "too", "many">>, <<"resource_exhausted">> }

OtherMessages == { <<"failed", "to", "fetch">> }

Rejections ==
    [kind : {"reject"}, isError : {TRUE}, message : RateLimitMessages \cup OtherMessages]
    \cup [kind : {"reject"}, isError : {FALSE}, message : {<<>>}]

\* JSON.parse throws a SyntaxError on a text that is no JSON
SyntaxErrorMessage == <<"unexpected", "token">>

NotJson == [kind |-> "text"]

\* the test every catch block of the AI games makes on e.message
IsRateLimit(message) ==
    Includes(message, "429") \/ Includes(ToUpperCase(message), "RESOURCE_EXHAUSTED")

\* the thrown value seen by the catch block when the awaited call rejects or
\* JSON.parse fails
Thrown(response) ==
    IF response.kind = "reject"
    THEN [isError |-> response.isError, message |-> response.message]
    ELSE [isError |-> TRUE, message |-> SyntaxErrorMessage]

-----------------------------------------------------------------------------
(* TimHinhDung (pattern find), src/unnamed/part_001                        *)

\* defaultPuzzles[0]: the fallback puzzle
defaultPuzzle ==
    [grid |-> << "red-rect", "red-circle", "red-polygon",
                 "blue-rect", "MISSING", "blue-polygon",
                 "green-rect", "green-circle", "green-polygon" >>,
     options |-> << "red-circle", "blue-circle", "blue-rect",
                    "green-polygon", "green-circle" >>,
     correctOptionIndex |-> 1]

\* a grid of n cells drawn by the service, 'MISSING' at the 0-based places in miss
AiGrid(n, miss) == [i \in 1..n |-> IF (i - 1) \in miss THEN "MISSING" ELSE "ai-svg"]

AiOptions(n) == [i \in 1..n |-> "ai-option"]

\* the JSON documents the service may answer with: the fields the component
\* reads; a field the document lacks is None
TimHinhDungPayloads ==
    { [grid |-> Some(AiGrid(9, {2})), options |-> Some(AiOptions(5)), correctOptionIndex |-> 0],
      [grid |-> Some(AiGrid(9, {7})), options |-> Some(AiOptions(5)), correctOptionIndex |-> 3],
      [grid |-> Some(AiGrid(9, {})), options |-> Some(AiOptions(5)), correctOptionIndex |-> 2],
      [grid |-> Some(AiGrid(9, {0, 5})), options |-> Some(AiOptions(5)), correctOptionIndex |-> 2],
      [grid |-> Some(AiGrid(8, {3})), options |-> Some(AiOptions(5)), correctOptionIndex |-> 4],
      [grid |-> Some(AiGrid(9, {3})), options |-> Some(AiOptions(4)), correctOptionIndex |-> 1],
      [grid |-> Some(AiGrid(9, {3})), options |-> Some(AiOptions(5)), correctOptionIndex |-> 7],
      [grid |-> None, options |-> Some(AiOptions(5)), correctOptionIndex |-> 1],
      [grid |-> Some(AiGrid(9, {3})), options |-> None, correctOptionIndex |-> 1] }

TimHinhDungResponses ==
    Rejections \cup {NotJson} \cup [kind : {"json"}, data : TimHinhDungPayloads]

\* the hooks of the component as one record
TimHinhDungState ==
    [puzzle |-> puzzle, isLoading |-> isLoading, error |-> error, selection |-> selection]

\* lines 70-76
loadDefaultPuzzle(s) ==
    LET missingIndex == IndexOf(defaultPuzzle.grid, "MISSING")
    IN [s EXCEPT !.puzzle = Some([grid |-> defaultPuzzle.grid,
                                  options |-> defaultPuzzle.options,
                                  correctOptionIndex |-> defaultPuzzle.correctOptionIndex,
                                  missingIndex |-> missingIndex]),
                 !.error = None]

\* lines 141-146: does the try block throw on this response
TimHinhDungThrows(response) ==
    \/ response.kind # "json"
    \/ response.data.grid = None                       \* data.grid.indexOf: TypeError
    \/ IndexOf(Get(response.data.grid), "MISSING") = -1
    \/ response.data.options = None                    \* data.options.length: TypeError
    \/ Len(Get(response.data.options)) # 5

\* lines 141-148: the try block after the await, when it does not throw
TimHinhDungApply(s, data) ==
    [s EXCEPT !.puzzle = Some([grid |-> Get(data.grid),
                               options |-> Get(data.options),
                               correctOptionIndex |-> data.correctOptionIndex,
                               missingIndex |-> IndexOf(Get(data.grid), "MISSING")])]

TimHinhDungGenericMessage == <<"Da xay ra loi khi tao cau do. Dang tai cau do mac dinh.">>

TimHinhDungQuotaMessage == <<"Luot truy cap API da het. Dang tai cau do mac dinh.">>

\* lines 150-159: the catch block
TimHinhDungCatch(s, e) ==
    LET errorMessage ==
            IF e.isError /\ IsRateLimit(e.message)
            THEN TimHinhDungQuotaMessage
            ELSE TimHinhDungGenericMessage
    IN loadDefaultPuzzle([s EXCEPT !.error = Some(errorMessage)])

\* lines 78-83: generateNew up to its await
TimHinhDung_generateNew ==
    /\ game = "TimHinhDung"
    /\ Len(pending) < MaxPending
    /\ isLoading' = TRUE
    /\ error' = None
    /\ selection' = None
    /\ puzzle' = None
    /\ pending' = Append(pending, [fn |-> "generateNew"])
    /\ UNCHANGED <<game, layout, legacyVars, theme, matchVars, answerVars, patterns, colorVars, mazeVars,
                   exportVars, random>>

\* lines 141-162: generateNew from its await on, for any pending invocation
TimHinhDung_settle ==
    /\ game = "TimHinhDung"
    /\ \E i \in DOMAIN pending, response \in TimHinhDungResponses :
          LET s1 == IF TimHinhDungThrows(response)
                    THEN TimHinhDungCatch(TimHinhDungState,
                             IF response.kind = "json"
                             THEN [isError |-> TRUE, message |-> <<"invalid", "data">>]
                             ELSE Thrown(response))
                    ELSE TimHinhDungApply(TimHinhDungState, response.data)
              s2 == [s1 EXCEPT !.isLoading = FALSE]          \* finally
          IN /\ puzzle' = s2.puzzle
             /\ isLoading' = s2.isLoading
             /\ error' = s2.error
             /\ selection' = s2.selection
             /\ pending' = RemoveAt(pending, i)
    /\ UNCHANGED <<game, layout, legacyVars, theme, matchVars, answerVars, patterns, colorVars, mazeVars,
                   exportVars, random>>

\* lines 213-215: the game surface is rendered (gameContentRef is set)
TimHinhDungRendered == ~isLoading /\ IsSome(puzzle)

\* lines 207-211, reached through the onClick of a rendered option (line 239)
TimHinhDung_handleOptionClick ==
    /\ game = "TimHinhDung"
    /\ TimHinhDungRendered
    /\ \E index \in 0..(Len(Get(puzzle).options) - 1) :
          selection' = Some([index |-> index,
                             isCorrect |-> (index = Get(puzzle).correctOptionIndex)])
    /\ UNCHANGED <<game, layout, legacyVars, genVars, puzzle, matchVars, answerVars, patterns, colorVars,
                   mazeVars, exportVars, random>>

-----------------------------------------------------------------------------
(* NoiSo (number match), src/Games/NoiSo.tsx                               *)

\* the template strings `l-${i}` and `r-${i}`
LeftId(i) == <<"l", i>>

RightId(i) == <<"r", i>>

\* lines 39-45
NoiSoDefaultGameData ==
    << [svg |-> "one-circle", count |-> 1], [svg |-> "two-rects", count |-> 2],
       [svg |-> "three-polygons", count |-> 3], [svg |-> "four-paths", count |-> 4],
       [svg |-> "five-circles", count |-> 5] >>

AiPair(c) == [svg |-> "ai-svg", count |-> c]

\* the JSON documents the service may answer with; isArray is Array.isArray(data)
NoiSoPayloads ==
    { [isArray |-> TRUE, items |-> <<AiPair(9), AiPair(7), AiPair(3), AiPair(6), AiPair(8)>>],
      [isArray |-> TRUE, items |-> <<AiPair(4), AiPair(4), AiPair(2), AiPair(6), AiPair(8)>>],
      [isArray |-> TRUE,
       items |-> <<AiPair(1), AiPair(2), AiPair(3), AiPair(4), AiPair(5), AiPair(6)>>],
      [isArray |-> TRUE, items |-> <<AiPair(1), AiPair(2), AiPair(3), AiPair(4)>>],
      [isArray |-> FALSE, items |-> <<>>] }

NoiSoResponses == Rejections \cup {NotJson} \cup [kind : {"json"}, data : NoiSoPayloads]

NoiSoState ==
    [isLoading |-> isLoading, error |-> error, leftItems |-> leftItems,
     rightItems |-> rightItems, selectedLeft |-> selectedLeft, connections |-> connections]

NoiSoLeftItem(item, i) == [id |-> LeftId(i), svg |-> item.svg, count |-> item.count]

NoiSoRightItem(item, i) == [id |-> RightId(i), count |-> item.count]

\* lines 61-72, for the two orders drawn by shuffleArray
loadDefaultData(s, baseItems, newRightItems) ==
    [s EXCEPT !.leftItems = MapIndexed(baseItems, NoiSoLeftItem),
              !.rightItems = newRightItems,
              !.connections = EmptyMap,
              !.selectedLeft = None,
              !.error = None]

\* lines 103-106
NoiSoThrows(response) ==
    \/ response.kind # "json"
    \/ ~response.data.isArray
    \/ Len(response.data.items) < 5

\* a try block that leaves the selection and the connections of the last puzzle
NoiSoApply_keepsPlay(s, data, newRightItems) ==
    [s EXCEPT !.leftItems = MapIndexed(data.items, NoiSoLeftItem),
              !.rightItems = newRightItems]

\* lines 108-114, for the order drawn by shuffleArray
NoiSoApply(s, data, newRightItems) ==
    [s EXCEPT !.leftItems = MapIndexed(data.items, NoiSoLeftItem),
              !.rightItems = newRightItems,
              !.connections = EmptyMap,
              !.selectedLeft = None]

NoiSoGenericMessage == <<"Loi khong xac dinh. Dang tai du lieu mac dinh.">>

NoiSoQuotaMessage == <<"Luot truy cap API da het. Dang tai du lieu mac dinh.">>

NoiSoThemeMessage == <<"Vui long nhap chu de.">>

\* lines 116-125
NoiSoCatch(s, e, baseItems, newRightItems) ==
    LET errorMessage ==
            IF e.isError /\ IsRateLimit(e.message)
            THEN NoiSoQuotaMessage
            ELSE NoiSoGenericMessage
    IN loadDefaultData([s EXCEPT !.error = Some(errorMessage)], baseItems, newRightItems)

\* generateNew whose early return leaves out setIsLoading(false)
NoiSo_generateNew_keepsLoading ==
    /\ game = "NoiSo"
    /\ IF Trim(theme) = <<>>
       THEN /\ error' = Some(NoiSoThemeMessage)
            /\ isLoading' = TRUE
            /\ pending' = pending
       ELSE /\ Len(pending) < MaxPending
            /\ isLoading' = TRUE
            /\ error' = None
            /\ pending' = Append(pending, [fn |-> "generateNew"])
    /\ UNCHANGED <<game, layout, legacyVars, theme, patternVars, matchVars, answerVars, patterns, colorVars,
                   mazeVars, exportVars, random>>

\* lines 74-81: generateNew up to its await, or to its early return
NoiSo_generateNew ==
    /\ game = "NoiSo"
    /\ IF Trim(theme) = <<>>
       THEN /\ error' = Some(NoiSoThemeMessage)
            /\ isLoading' = FALSE
            /\ pending' = pending
       ELSE /\ Len(pending) < MaxPending
            /\ isLoading' = TRUE
            /\ error' = None
            /\ pending' = Append(pending, [fn |-> "generateNew"])
    /\ UNCHANGED <<game, layout, legacyVars, theme, patternVars, matchVars, answerVars, patterns, colorVars,
                   mazeVars, exportVars, random>>

\* a continuation that drops its result while a later request is pending
NoiSo_settle_dropsStale ==
    /\ game = "NoiSo"
    /\ \E i \in DOMAIN pending :
          /\ i < Len(pending)
          /\ pending' = RemoveAt(pending, i)
    /\ UNCHANGED <<game, layout, legacyVars, theme, isLoading, error, patternVars, matchVars,
                   answerVars, patterns, colorVars, mazeVars, exportVars, random>>

\* lines 103-128: generateNew from its await on, for any pending invocation
NoiSo_settle ==
    /\ game = "NoiSo"
    /\ \E i \in DOMAIN pending, response \in NoiSoResponses :
          \E s1 \in
             IF NoiSoThrows(response)
             THEN { NoiSoCatch(NoiSoState,
                        IF response.kind = "json"
                        THEN [isError |-> TRUE, message |-> <<"Du lieu tu AI khong hop le.">>]
                        ELSE Thrown(response),
                        baseItems, newRightItems) :
                      <<baseItems, newRightItems>> \in
                          UNION { {baseItems} \X shuffleArray(MapIndexed(baseItems, NoiSoRightItem)) :
                                     baseItems \in shuffleArray(NoiSoDefaultGameData) } }
             ELSE { NoiSoApply(NoiSoState, response.data, newRightItems) :
                      newRightItems \in
                          shuffleArray(MapIndexed(response.data.items, NoiSoRightItem)) } :
             LET s2 == [s1 EXCEPT !.isLoading = FALSE]        \* finally
             IN /\ isLoading' = s2.isLoading
                /\ error' = s2.error
                /\ leftItems' = s2.leftItems
                /\ rightItems' = s2.rightItems
                /\ selectedLeft' = s2.selectedLeft
                /\ connections' = s2.connections
                /\ pending' = RemoveAt(pending, i)
    /\ UNCHANGED <<game, layout, legacyVars, theme, patternVars, answerVars, patterns, colorVars, mazeVars,
                   exportVars, random>>

\* lines 244-245: the columns are rendered (gameContentRef is set)
NoiSoRendered == ~isLoading

\* line 235: the theme input, disabled while loading
NoiSo_setTheme ==
    /\ game = "NoiSo"
    /\ ~isLoading
    /\ \E value \in ThemeTexts : theme' = value
    /\ UNCHANGED <<game, layout, legacyVars, isLoading, error, pending, patternVars, matchVars, answerVars,
                   patterns, colorVars, mazeVars, exportVars, random>>

\* lines 211-213
NoiSo_handleLeftClick ==
    /\ game = "NoiSo"
    /\ NoiSoRendered
    /\ \E k \in 1..Min(MatchSpan, Len(leftItems)) : selectedLeft' = Some(leftItems[k])
    /\ UNCHANGED <<game, layout, legacyVars, genVars, patternVars, leftItems, rightItems, connections,
                   answerVars, patterns, colorVars, mazeVars, exportVars, random>>

\* handleRightClick without the comparison of the counts: every attempt is recorded
NoiSo_handleRightClick_unvalidated ==
    /\ game = "NoiSo"
    /\ NoiSoRendered
    /\ \E k \in 1..Min(MatchSpan, Len(rightItems)) :
          IF IsSome(selectedLeft)
          THEN /\ connections' = Put(connections, Get(selectedLeft).id, rightItems[k].id)
               /\ selectedLeft' = None
          ELSE UNCHANGED <<connections, selectedLeft>>
    /\ UNCHANGED <<game, layout, legacyVars, genVars, patternVars, leftItems, rightItems, answerVars,
                   patterns, colorVars, mazeVars, exportVars, random>>

\* lines 215-222
NoiSo_handleRightClick ==
    /\ game = "NoiSo"
    /\ NoiSoRendered
    /\ \E k \in 1..Min(MatchSpan, Len(rightItems)) :
          LET item == rightItems[k]
          IN IF IsSome(selectedLeft)
             THEN /\ connections' =
                        IF Get(selectedLeft).count = item.count
                        THEN Put(connections, Get(selectedLeft).id, item.id)
                        ELSE connections
                  /\ selectedLeft' = None
             ELSE UNCHANGED <<connections, selectedLeft>>
    /\ UNCHANGED <<game, layout, legacyVars, genVars, patternVars, leftItems, rightItems, answerVars,
                   patterns, colorVars, mazeVars, exportVars, random>>

-----------------------------------------------------------------------------
(* ToMauManhGhep (colouring puzzle with remote templates), src/unnamed/part_002 *)

\* lines 43-53
ToMauDefaultGameData ==
    [pieces |-> <<"M0 50", "M100 50", "M50 100", "M50 0", "M50 50">>,
     colors |-> <<"#2ecc71", "#f1c40f", "#3498db", "#e74c3c", "#e84393">>,
     viewBox |-> "-2 -2 104 104"]

\* the JSON documents the service may answer with; a missing member is None
ToMauPayloads ==
    { [pieces |-> Some(<<"ai-1", "ai-2", "ai-3", "ai-4", "ai-5">>),
       colors |-> Some(<<"#111111", "#222222", "#333333", "#444444", "#555555">>),
       viewBox |-> "0 0 100 100"],
      [pieces |-> Some(<<"ai-1", "ai-2", "ai-3", "ai-4", "ai-5">>),
       colors |-> Some(<<"#111111", "#222222", "#333333", "#444444">>),
       viewBox |-> "0 0 100 100"],
      [pieces |-> Some(<<>>), colors |-> Some(<<>>), viewBox |-> "0 0 100 100"],
      [pieces |-> None, colors |-> Some(<<"#111111">>), viewBox |-> "0 0 100 100"],
      [pieces |-> Some(<<"ai-1">>), colors |-> None, viewBox |-> "0 0 100 100"] }

ToMauResponses == Rejections \cup {NotJson} \cup [kind : {"json"}, data : ToMauPayloads]

ToMauState ==
    [currentTemplate |-> currentTemplate, referenceColors |-> referenceColors,
     puzzles |-> puzzles, selectedColor |-> selectedColor,
     isLoading |-> isLoading, error |-> error]

\* the orders shuffleArray may draw in setupPuzzleState: one for the reference
\* colours, then one palette for each of the 4 puzzles
ToMauShuffles(colors) ==
    UNION { {shuffledColors} \X [1..4 -> shuffleArray(shuffledColors)] :
               shuffledColors \in shuffleArray(colors) }

\* lines 64-75
setupPuzzleState(s, template, shuffles) ==
    [s EXCEPT !.currentTemplate = Some(template),
              !.referenceColors = shuffles[1],
              !.puzzles = [i \in 1..4 |->
                              [id |-> i - 1,
                               palette |-> shuffles[2][i],
                               pieceColors |-> [k \in DOMAIN template.pieces |-> "white"]]],
              !.selectedColor = None]

\* lines 77-81
ToMauLoadDefaultData(s, shuffles) ==
    [setupPuzzleState(s, ToMauDefaultGameData, shuffles) EXCEPT !.error = None]

\* lines 112-115
ToMauThrows(response) ==
    \/ response.kind # "json"
    \/ response.data.pieces = None
    \/ response.data.colors = None
    \/ Len(Get(response.data.pieces)) # Len(Get(response.data.colors))

ToMauTemplate(data) ==
    [pieces |-> Get(data.pieces), colors |-> Get(data.colors), viewBox |-> data.viewBox]

ToMauGenericMessage == <<"Da xay ra loi khi tao cau do.">>

ToMauQuotaMessage == <<"Luot truy cap API da het. Dang tai cau do mac dinh.">>

\* lines 118-127
ToMauCatch(s, e, shuffles) ==
    LET errorMessage ==
            IF e.isError /\ IsRateLimit(e.message)
            THEN ToMauQuotaMessage
            ELSE ToMauGenericMessage
    IN ToMauLoadDefaultData([s EXCEPT !.error = Some(errorMessage)], shuffles)

\* lines 83-85: generateNew up to its await
ToMau_generateNew ==
    /\ game = "ToMauManhGhep"
    /\ Len(pending) < MaxPending
    /\ isLoading' = TRUE
    /\ error' = None
    /\ pending' = Append(pending, [fn |-> "generateNew"])
    /\ UNCHANGED <<game, layout, legacyVars, theme, patternVars, matchVars, answerVars, patterns, colorVars,
                   mazeVars, exportVars, random>>

\* lines 112-130: generateNew from its await on, for any pending invocation
ToMau_settle ==
    /\ game = "ToMauManhGhep"
    /\ \E i \in DOMAIN pending, response \in ToMauResponses :
          \E s1 \in
             IF ToMauThrows(response)
             THEN { ToMauCatch(ToMauState,
                        IF response.kind = "json"
                        THEN [isError |-> TRUE,
                              message |-> <<"invalid", "data", "structure", "from", "ai">>]
                        ELSE Thrown(response),
                        shuffles) :
                      shuffles \in ToMauShuffles(ToMauDefaultGameData.colors) }
             ELSE { setupPuzzleState(ToMauState, ToMauTemplate(response.data), shuffles) :
                      shuffles \in ToMauShuffles(Get(response.data.colors)) } :
             LET s2 == [s1 EXCEPT !.isLoading = FALSE]        \* finally
             IN /\ currentTemplate' = s2.currentTemplate
                /\ referenceColors' = s2.referenceColors
                /\ puzzles' = s2.puzzles
                /\ selectedColor' = s2.selectedColor
                /\ isLoading' = s2.isLoading
                /\ error' = s2.error
                /\ pending' = RemoveAt(pending, i)
    /\ UNCHANGED <<game, layout, legacyVars, theme, patternVars, matchVars, answerVars, patterns, mazeVars,
                   exportVars, random>>

\* lines 203-213: the puzzles are rendered (gameContentRef is set)
ToMauRendered == ~isLoading /\ IsSome(currentTemplate)

\* line 231: a click on a swatch of a puzzle's palette
ToMau_setSelectedColor ==
    /\ game = "ToMauManhGhep"
    /\ ToMauRendered
    /\ \E p \in 1..Min(ClickSpan, Len(puzzles)) :
          \E c \in 1..Min(ClickSpan, Len(puzzles[p].palette)) :
             selectedColor' = Some(puzzles[p].palette[c])
    /\ UNCHANGED <<game, layout, legacyVars, genVars, patternVars, matchVars, answerVars, patterns,
                   currentTemplate, referenceColors, puzzles, mazeVars, exportVars, random>>

\* a click that paints the piece in every puzzle
handlePieceClick_everyPuzzle(prevPuzzles, color, puzzleId, pieceIndex) ==
    [i \in DOMAIN prevPuzzles |->
        [prevPuzzles[i] EXCEPT !.pieceColors[pieceIndex + 1] = color]]

\* lines 175-185
handlePieceClick(prevPuzzles, color, puzzleId, pieceIndex) ==
    [i \in DOMAIN prevPuzzles |->
        IF prevPuzzles[i].id = puzzleId
        THEN [prevPuzzles[i] EXCEPT !.pieceColors[pieceIndex + 1] = color]
        ELSE prevPuzzles[i]]

ToMau_handlePieceClick ==
    /\ game = "ToMauManhGhep"
    /\ ToMauRendered
    /\ \E p \in 1..Min(ClickSpan, Len(puzzles)) :
          \E pieceIndex \in 0..(Min(ClickSpan, Len(puzzles[p].pieceColors)) - 1) :
             puzzles' = IF IsSome(selectedColor)
                        THEN handlePieceClick(puzzles, Get(selectedColor), puzzles[p].id,
                                              pieceIndex)
                        ELSE puzzles
    /\ UNCHANGED <<game, layout, legacyVars, genVars, patternVars, matchVars, answerVars, patterns,
                   currentTemplate, referenceColors, selectedColor, mazeVars, exportVars, random>>

-----------------------------------------------------------------------------
(* MaHoaPhepTinh (symbol math with remote legends), src/unnamed/part_004   *)

\* the texts the user may type into an answer box
TypedTexts == { <<>>, <<"7">>, <<"a">>, <<"1", "b", "2">> }

IsDigit(c) == c \in {"0", "1", "2", "3", "4", "5", "6", "7", "8", "9"}

\* a replace that keeps every character of the typed value
DigitsOnly_keepsAll(value) == value

\* value.replace(/[^0-9]/g, '')
DigitsOnly(value) == SelectSeq(value, IsDigit)

\* the initial text of the theme input, line 87
MaHoaInitialTheme == <<"d", "o", "n", "g", " ", "v", "a", "t">>

Icon(i, v) == [icon |-> i, value |-> v]

Problem(a, op, b, r) == [operand1 |-> a, operand2 |-> b, operator |-> op, result |-> r]

\* lines 64-84
MaHoaDefaultGameData ==
    [iconMap |-> << Icon("dog", 1), Icon("cat", 2), Icon("mouse", 3), Icon("fox", 4),
                    Icon("bear", 5), Icon("panda", 6), Icon("koala", 7), Icon("tiger", 8),
                    Icon("lion", 9) >>,
     problems |-> << Problem("cat", "+", "dog", 3), Problem("lion", "-", "fox", 5),
                     Problem("bear", "+", "mouse", 8), Problem("tiger", "-", "koala", 1),
                     Problem("panda", "+", "cat", 8), Problem("fox", "+", "dog", 5),
                     Problem("koala", "-", "bear", 2), Problem("mouse", "+", "mouse", 6),
                     Problem("lion", "-", "tiger", 1), Problem("panda", "-", "fox", 2),
                     Problem("dog", "+", "koala", 8), Problem("tiger", "-", "mouse", 5) >>]

AiIcons == <<"e1", "e2", "e3", "e4", "e5", "e6", "e7", "e8", "e9", "e10">>

\* an iconMap of n emojis, the k-th with the value values[k]
AiIconMap(values) == [k \in DOMAIN values |-> Icon(AiIcons[k], values[k])]

AiProblems == << Problem("e1", "+", "e2", 5), Problem("e9", "-", "e3", 3) >>

\* the JSON documents the service may answer with; a missing member is None
MaHoaPayloads ==
    { [iconMap |-> Some(AiIconMap(<<3, 2, 1, 4, 5, 6, 7, 8, 9>>)), problems |-> Some(AiProblems)],
      [iconMap |-> Some(AiIconMap(<<1, 1, 2, 3, 4, 5, 6, 7, 8>>)), problems |-> Some(AiProblems)],
      [iconMap |-> Some(AiIconMap(<<1, 2, 3, 4, 5, 6, 7, 8, 9, 10>>)), problems |-> Some(AiProblems)],
      [iconMap |-> Some(AiIconMap(<<0, 2, 3, 4, 5, 6, 7, 8, 9>>)), problems |-> Some(AiProblems)],
      [iconMap |-> Some(AiIconMap(<<1, 2, 3, 4, 5, 6, 7, 8>>)), problems |-> Some(AiProblems)],
      [iconMap |-> None, problems |-> Some(AiProblems)],
      [iconMap |-> Some(AiIconMap(<<1, 2, 3, 4, 5, 6, 7, 8, 9>>)), problems |-> None] }

MaHoaResponses == Rejections \cup {NotJson} \cup [kind : {"json"}, data : MaHoaPayloads]

MaHoaState ==
    [theme |-> theme, isLoading |-> isLoading, error |-> error, legend |-> legend,
     problems |-> problems, userAnswers |-> userAnswers]

WithId(p, i) == [operand1 |-> p.operand1, operand2 |-> p.operand2,
                 operator |-> p.operator, result |-> p.result, id |-> i]

\* lines 96-103
MaHoaLoadDefaultData(s) ==
    [s EXCEPT !.theme = MaHoaInitialTheme,
              !.legend = MaHoaDefaultGameData.iconMap,
              !.problems = MapIndexed(MaHoaDefaultGameData.problems, WithId),
              !.userAnswers = EmptyMap,
              !.error = None]

\* lines 136-139
MaHoaThrows(response) ==
    \/ response.kind # "json"
    \/ response.data.iconMap = None
    \/ Len(Get(response.data.iconMap)) < 9
    \/ response.data.problems = None

\* lines 141-146
MaHoaApply(s, puzzleData) ==
    [s EXCEPT !.legend = Get(puzzleData.iconMap),
              !.problems = MapIndexed(Get(puzzleData.problems), WithId),
              !.userAnswers = EmptyMap]

MaHoaUnknownMessage == <<"Da xay ra loi khong xac dinh. Vui long thu lai.">>

MaHoaInvalidMessage == <<"Cau truc du lieu nhan tu AI khong hop le. Vui long tao lai.">>

MaHoaThemeMessage == <<"Vui long nhap chu de de tao tro choi.">>

\* lines 148-160
MaHoaCatch(s, e) ==
    LET errorMessage == IF e.isError THEN e.message ELSE MaHoaUnknownMessage
    IN IF IsRateLimit(errorMessage)
       THEN MaHoaLoadDefaultData(s)
       ELSE [s EXCEPT !.error = Some(errorMessage)]

\* lines 105-111: generateGame up to its await, or to its early return
MaHoa_generateGame ==
    /\ game = "MaHoaPhepTinh"
    /\ IF Trim(theme) = <<>>
       THEN /\ error' = Some(MaHoaThemeMessage)
            /\ UNCHANGED <<isLoading, pending>>
       ELSE /\ Len(pending) < MaxPending
            /\ isLoading' = TRUE
            /\ error' = None
            /\ pending' = Append(pending, [fn |-> "generateGame"])
    /\ UNCHANGED <<game, layout, legacyVars, theme, patternVars, matchVars, answerVars, patterns, colorVars,
                   mazeVars, exportVars, random>>

\* a continuation whose setIsLoading(false) stands at the end of the try block
MaHoa_settle_noFinally ==
    /\ game = "MaHoaPhepTinh"
    /\ \E i \in DOMAIN pending, response \in MaHoaResponses :
          LET s2 == IF MaHoaThrows(response)
                    THEN MaHoaCatch(MaHoaState,
                             IF response.kind = "json"
                             THEN [isError |-> TRUE, message |-> MaHoaInvalidMessage]
                             ELSE Thrown(response))
                    ELSE [MaHoaApply(MaHoaState, response.data) EXCEPT !.isLoading = FALSE]
          IN /\ theme' = s2.theme
             /\ isLoading' = s2.isLoading
             /\ error' = s2.error
             /\ legend' = s2.legend
             /\ problems' = s2.problems
             /\ userAnswers' = s2.userAnswers
             /\ pending' = RemoveAt(pending, i)
    /\ UNCHANGED <<game, layout, legacyVars, patternVars, matchVars, patterns, colorVars, mazeVars,
                   exportVars, random>>

\* lines 136-163: generateGame from its await on, for any pending invocation
MaHoa_settle ==
    /\ game = "MaHoaPhepTinh"
    /\ \E i \in DOMAIN pending, response \in MaHoaResponses :
          LET s1 == IF MaHoaThrows(response)
                    THEN MaHoaCatch(MaHoaState,
                             IF response.kind = "json"
                             THEN [isError |-> TRUE, message |-> MaHoaInvalidMessage]
                             ELSE Thrown(response))
                    ELSE MaHoaApply(MaHoaState, response.data)
              s2 == [s1 EXCEPT !.isLoading = FALSE]           \* finally
          IN /\ theme' = s2.theme
             /\ isLoading' = s2.isLoading
             /\ error' = s2.error
             /\ legend' = s2.legend
             /\ problems' = s2.problems
             /\ userAnswers' = s2.userAnswers
             /\ pending' = RemoveAt(pending, i)
    /\ UNCHANGED <<game, layout, legacyVars, patternVars, matchVars, patterns, colorVars, mazeVars, exportVars, random>>

\* lines 226-232: the legend and the problems are rendered
MaHoaRendered == ~isLoading /\ error = None

\* lines 215-224: the theme input, disabled while loading
MaHoa_setTheme ==
    /\ game = "MaHoaPhepTinh"
    /\ ~isLoading
    /\ \E value \in ThemeTexts : theme' = value
    /\ UNCHANGED <<game, layout, legacyVars, isLoading, error, pending, patternVars, matchVars, answerVars,
                   patterns, colorVars, mazeVars, exportVars, random>>

\* lines 207-209
MaHoaHandleInputChange(prev, id, value) == Put(prev, id, DigitsOnly(value))

MaHoa_handleInputChange ==
    /\ game = "MaHoaPhepTinh"
    /\ MaHoaRendered
    /\ \E k \in 1..Min(ClickSpan, Len(problems)), value \in TypedTexts :
          userAnswers' = MaHoaHandleInputChange(userAnswers, problems[k].id, value)
    /\ UNCHANGED <<game, layout, legacyVars, genVars, patternVars, matchVars, legend, problems, patterns,
                   colorVars, mazeVars, exportVars, random>>

-----------------------------------------------------------------------------
(* DienKiTu (character fill with remote emojis), src/unnamed/part_004      *)

\* line 288
SYMBOLS == <<"O", "X", "+", "v", "-">>

\* the initial text of the theme input, line 310
DienKiTuInitialTheme == <<"d", "o", " ", "a", "n">>

AiEmojis(n) == [k \in 1..n |-> AiIcons[((k - 1) % 10) + 1]]

\* the JSON documents the service may answer with; a missing member is None
DienKiTuPayloads ==
    { [legendEmojis |-> Some(AiEmojis(5)), problemEmojis |-> Some(AiEmojis(20))],
      [legendEmojis |-> Some(AiEmojis(6)), problemEmojis |-> Some(AiEmojis(21))],
      [legendEmojis |-> Some(AiEmojis(4)), problemEmojis |-> Some(AiEmojis(20))],
      [legendEmojis |-> Some(AiEmojis(5)), problemEmojis |-> Some(AiEmojis(19))],
      [legendEmojis |-> None, problemEmojis |-> Some(AiEmojis(20))],
      [legendEmojis |-> Some(AiEmojis(5)), problemEmojis |-> None] }

DienKiTuResponses == Rejections \cup {NotJson} \cup [kind : {"json"}, data : DienKiTuPayloads]

DienKiTuState ==
    [isLoading |-> isLoading, error |-> error, legend |-> legend,
     problems |-> problems, userAnswers |-> userAnswers]

\* lines 345-348
DienKiTuThrows(response) ==
    \/ response.kind # "json"
    \/ response.data.legendEmojis = None
    \/ Len(Get(response.data.legendEmojis)) < 5
    \/ response.data.problemEmojis = None
    \/ Len(Get(response.data.problemEmojis)) < 20

\* lines 350-358, for the order drawn by shuffleArray; an index past the
\* symbols reads undefined
DienKiTuApply(s, puzzleData, shuffledSymbols) ==
    [s EXCEPT !.legend = [k \in DOMAIN Get(puzzleData.legendEmojis) |->
                             [emoji |-> Get(puzzleData.legendEmojis)[k],
                              symbol |-> IF k <= Len(shuffledSymbols)
                                         THEN shuffledSymbols[k]
                                         ELSE "undefined"]],
              !.problems = [k \in DOMAIN Get(puzzleData.problemEmojis) |->
                               [emoji |-> Get(puzzleData.problemEmojis)[k], id |-> k - 1]],
              !.userAnswers = EmptyMap]

\* lines 360-366
DienKiTuCatch(s, e) ==
    LET errorMessage == IF e.isError THEN e.message ELSE MaHoaUnknownMessage
    IN [s EXCEPT !.error = Some(errorMessage)]

\* lines 318-324: generateGame up to its await, or to its early return
DienKiTu_generateGame ==
    /\ game = "DienKiTu"
    /\ IF Trim(theme) = <<>>
       THEN /\ error' = Some(MaHoaThemeMessage)
            /\ UNCHANGED <<isLoading, pending>>
       ELSE /\ Len(pending) < MaxPending
            /\ isLoading' = TRUE
            /\ error' = None
            /\ pending' = Append(pending, [fn |-> "generateGame"])
    /\ UNCHANGED <<game, layout, legacyVars, theme, patternVars, matchVars, answerVars, patterns, colorVars,
                   mazeVars, exportVars, random>>

\* lines 345-369: generateGame from its await on, for any pending invocation
DienKiTu_settle ==
    /\ game = "DienKiTu"
    /\ \E i \in DOMAIN pending, response \in DienKiTuResponses :
          \E s1 \in
             IF DienKiTuThrows(response)
             THEN { DienKiTuCatch(DienKiTuState,
                        IF response.kind = "json"
                        THEN [isError |-> TRUE, message |-> MaHoaInvalidMessage]
                        ELSE Thrown(response)) }
             ELSE { DienKiTuApply(DienKiTuState, response.data, shuffledSymbols) :
                      shuffledSymbols \in shuffleArray(SYMBOLS) } :
             LET s2 == [s1 EXCEPT !.isLoading = FALSE]        \* finally
             IN /\ isLoading' = s2.isLoading
                /\ error' = s2.error
                /\ legend' = s2.legend
                /\ problems' = s2.problems
                /\ userAnswers' = s2.userAnswers
                /\ pending' = RemoveAt(pending, i)
    /\ UNCHANGED <<game, layout, legacyVars, theme, patternVars, matchVars, patterns, colorVars, mazeVars,
                   exportVars, random>>

\* lines 433-438: the legend and the grid are rendered
DienKiTuRendered == ~isLoading /\ error = None

\* lines 421-430: the theme input, disabled while loading
DienKiTu_setTheme ==
    /\ game = "DienKiTu"
    /\ ~isLoading
    /\ \E value \in ThemeTexts : theme' = value
    /\ UNCHANGED <<game, layout, legacyVars, isLoading, error, pending, patternVars, matchVars, answerVars,
                   patterns, colorVars, mazeVars, exportVars, random>>

\* the texts an answer box of maxLength 1 may hold, line 455
TypedCharacters == { <<>>, <<"O">>, <<"7">> }

\* lines 413-415
DienKiTuHandleInputChange(prev, id, value) == Put(prev, id, value)

DienKiTu_handleInputChange ==
    /\ game = "DienKiTu"
    /\ DienKiTuRendered
    /\ \E k \in 1..Min(ClickSpan, Len(problems)), value \in TypedCharacters :
          userAnswers' = DienKiTuHandleInputChange(userAnswers, problems[k].id, value)
    /\ UNCHANGED <<game, layout, legacyVars, genVars, patternVars, matchVars, legend, problems, patterns,
                   colorVars, mazeVars, exportVars, random>>

-----------------------------------------------------------------------------
(* ToTracNghiem (dot patterns to copy), src/Games/ToTracNghiem.tsx         *)

\* a grid of n numbers: the cells of `on` hold v, the others 0
DotGrid(n, on, v) == [k \in 1..n |-> IF k \in on THEN v ELSE 0]

\* the JSON documents one request may be answered with; a missing grid is None
ToTracNghiemPayloads ==
    { [grid |-> Some(DotGrid(25, {3, 8, 13, 18, 23}, 1)), isArray |-> TRUE],
      [grid |-> Some(DotGrid(25, {1, 7}, 2)), isArray |-> TRUE],
      [grid |-> Some(DotGrid(24, {3, 8, 13}, 1)), isArray |-> TRUE],
      [grid |-> Some(DotGrid(26, {3, 8, 13}, 1)), isArray |-> TRUE],
      [grid |-> Some(<<>>), isArray |-> FALSE],
      [grid |-> None, isArray |-> FALSE] }

ToTracNghiemResponses ==
    Rejections \cup {NotJson} \cup [kind : {"json"}, data : ToTracNghiemPayloads]

WellFormedResponse ==
    [kind |-> "json", data |-> [grid |-> Some(DotGrid(25, {3, 8, 13, 18, 23}, 1)),
                                isArray |-> TRUE]]

\* the answers to the 8 requests of one generateNew: the model draws the
\* batches in which at most one answer differs from the well-formed one
ToTracNghiemBatches ==
    { [k \in 1..8 |-> IF k = at THEN response ELSE WellFormedResponse] :
         at \in 1..8, response \in ToTracNghiemResponses }

ToTracNghiemState == [patterns |-> patterns, isLoading |-> isLoading, error |-> error]

\* lines 59-62: the answer of one request does not parse or holds no grid of 25
ToTracNghiemInvalid(response) ==
    \/ response.kind # "json"
    \/ response.data.grid = None
    \/ ~response.data.isArray
    \/ Len(Get(response.data.grid)) # 25

\* the message of line 61; the character it names is left out
ToTracNghiemInvalidMessage == <<"invalid", "grid", "data", "received", "for", "character">>

\* Promise.all rejects as soon as one request is rejected
ToTracNghiemRejected(responses) == { k \in DOMAIN responses : responses[k].kind = "reject" }

\* lines 56-68: what the try block throws, if it throws
ToTracNghiemThrown(responses) ==
    IF ToTracNghiemRejected(responses) # {}
    THEN { Thrown(responses[k]) : k \in ToTracNghiemRejected(responses) }
    ELSE LET bad == { k \in DOMAIN responses : ToTracNghiemInvalid(responses[k]) }
             first == CHOOSE k \in bad : \A j \in bad : k <= j
         IN IF bad = {} THEN {}
            ELSE IF responses[first].kind = "text"
                 THEN { [isError |-> TRUE, message |-> SyntaxErrorMessage] }
                 ELSE { [isError |-> TRUE, message |-> ToTracNghiemInvalidMessage] }

\* lines 58-70
ToTracNghiemApply(s, responses) ==
    [s EXCEPT !.patterns = [k \in DOMAIN responses |->
                               [id |-> k - 1,
                                model |-> Get(responses[k].data.grid),
                                userGrid |-> [d \in 1..25 |-> 0]]]]

ToTracNghiemGenericMessage == <<"Da xay ra loi khi tao mau. Vui long thu lai.">>

\* a catch block that also throws the rows of the last puzzle away
ToTracNghiemCatch_clears(s, e) ==
    LET errorMessage == IF e.isError THEN e.message ELSE ToTracNghiemGenericMessage
    IN [s EXCEPT !.error = Some(errorMessage), !.patterns = <<>>]

\* lines 72-78
ToTracNghiemCatch(s, e) ==
    LET errorMessage == IF e.isError THEN e.message ELSE ToTracNghiemGenericMessage
    IN [s EXCEPT !.error = Some(errorMessage)]

\* lines 34-56: generateNew up to its await
ToTracNghiem_generateNew ==
    /\ game = "ToTracNghiem"
    /\ Len(pending) < MaxPending
    /\ isLoading' = TRUE
    /\ error' = None
    /\ pending' = Append(pending, [fn |-> "generateNew"])
    /\ UNCHANGED <<game, layout, legacyVars, theme, patternVars, matchVars, answerVars, patterns, colorVars,
                   mazeVars, exportVars, random>>

\* lines 56-81: generateNew from its await on, for any pending invocation
ToTracNghiem_settle ==
    /\ game = "ToTracNghiem"
    /\ \E i \in DOMAIN pending, responses \in ToTracNghiemBatches :
          \E s1 \in
             IF ToTracNghiemThrown(responses) # {}
             THEN { ToTracNghiemCatch(ToTracNghiemState, e) :
                      e \in ToTracNghiemThrown(responses) }
             ELSE { ToTracNghiemApply(ToTracNghiemState, responses) } :
             LET s2 == [s1 EXCEPT !.isLoading = FALSE]        \* finally
             IN /\ patterns' = s2.patterns
                /\ isLoading' = s2.isLoading
                /\ error' = s2.error
                /\ pending' = RemoveAt(pending, i)
    /\ UNCHANGED <<game, layout, legacyVars, theme, patternVars, matchVars, answerVars, colorVars, mazeVars,
                   exportVars, random>>

\* lines 151-157: the rows are rendered (gameContentRef is set)
ToTracNghiemRendered == ~isLoading /\ error = None

\* a click that fills the dot and never clears it
handleDotClick_fills(prevPatterns, rowId, dotIndex) ==
    [k \in DOMAIN prevPatterns |->
        IF prevPatterns[k].id = rowId
        THEN [prevPatterns[k] EXCEPT !.userGrid[dotIndex + 1] = 1]
        ELSE prevPatterns[k]]

\* a click that marks the dot in the model grid as well
handleDotClick_marksModel(prevPatterns, rowId, dotIndex) ==
    [k \in DOMAIN prevPatterns |->
        IF prevPatterns[k].id = rowId
        THEN [prevPatterns[k] EXCEPT !.userGrid[dotIndex + 1] =
                                        IF prevPatterns[k].userGrid[dotIndex + 1] = 1
                                        THEN 0 ELSE 1,
                                     !.model[dotIndex + 1] = 1]
        ELSE prevPatterns[k]]

\* lines 125-136
handleDotClick(prevPatterns, rowId, dotIndex) ==
    [k \in DOMAIN prevPatterns |->
        IF prevPatterns[k].id = rowId
        THEN [prevPatterns[k] EXCEPT !.userGrid[dotIndex + 1] =
                                        IF prevPatterns[k].userGrid[dotIndex + 1] = 1
                                        THEN 0 ELSE 1]
        ELSE prevPatterns[k]]

ToTracNghiem_handleDotClick ==
    /\ game = "ToTracNghiem"
    /\ ToTracNghiemRendered
    /\ \E r \in 1..Min(ClickSpan, Len(patterns)), dotIndex \in 0..(ClickSpan - 1) :
          patterns' = handleDotClick(patterns, patterns[r].id, dotIndex)
    /\ UNCHANGED <<game, layout, legacyVars, genVars, patternVars, matchVars, answerVars, colorVars, mazeVars,
                   exportVars, random>>

-----------------------------------------------------------------------------
(* MeCungToanHoc (math maze), src/unnamed/part_005                         *)

Pos(x, y) == [pos |-> [x |-> x, y |-> y]]

\* lines 28-34
simpleMazeLayout ==
    << Pos(170, 20), Pos(320, 20), Pos(320, 120), Pos(170, 220), Pos(170, 320),
       Pos(170, 420), Pos(320, 420), Pos(320, 520), Pos(170, 620), Pos(320, 620) >>

\* lines 36-46
complexMazeLayout ==
    << Pos(20, 20), Pos(170, 20), Pos(170, 120), Pos(20, 220), Pos(20, 320), Pos(20, 420),
       Pos(170, 420), Pos(170, 520), Pos(20, 620), Pos(170, 620), Pos(320, 620),
       Pos(320, 520), Pos(320, 420), Pos(470, 420), Pos(320, 320), Pos(320, 220),
       Pos(470, 120), Pos(470, 20), Pos(620, 20), Pos(620, 120), Pos(620, 220),
       Pos(620, 320), Pos(620, 420), Pos(620, 520), Pos(470, 620), Pos(620, 620) >>

\* lines 57-78: the loop from node i on; the i-th iteration reads the draws
\* 2i + 1 and 2i + 2
RECURSIVE MazeWalk(_, _, _, _, _, _, _)
MazeWalk(rnd, structure, i, currentValue, prevNode, newNodes, newConnections) ==
    IF i >= Len(structure)
    THEN [nodes |-> newNodes, connections |-> newConnections]
    ELSE LET isEndNode == (i = Len(structure) - 1)
             add == MoreThanHalf(Draw(rnd, 2 * i + 1))
             amount == getRandomInt(Draw(rnd, 2 * i + 2), 1, 9)
             op == <<IF add THEN "+" ELSE "-">> \o NumberToString(amount)
             value == IF add THEN currentValue + amount
                             ELSE Max(0, currentValue - amount)
             currentNode == [id |-> i, value |-> value, isInput |-> ~isEndNode,
                             pos |-> structure[i + 1].pos]
         IN MazeWalk(rnd, structure, i + 1, value, currentNode,
                     Append(newNodes, currentNode),
                     Append(newConnections,
                            [from |-> prevNode, to |-> currentNode, op |-> op]))

\* lines 27-83
generateMaze(rnd) ==
    LET structure == IF MoreThanHalf(Draw(rnd, 1)) THEN complexMazeLayout ELSE simpleMazeLayout
        currentValue == getRandomInt(Draw(rnd, 2), 5, 15)
        prevNode == [id |-> 0, value |-> currentValue, isInput |-> FALSE,
                     pos |-> structure[1].pos]
    IN [maze |-> MazeWalk(rnd, structure, 1, currentValue, prevNode, <<prevNode>>, <<>>),
        drawn |-> 2 * Len(structure)]

MeCung_generateMaze ==
    /\ game = "MeCungToanHoc"
    /\ nodes' = generateMaze(random).maze.nodes
    /\ mazeConnections' = generateMaze(random).maze.connections
    /\ userAnswers' = EmptyMap
    /\ random' = Advance(random, generateMaze(random).drawn)
    /\ UNCHANGED <<game, layout, legacyVars, genVars, patternVars, matchVars, legend, problems, patterns,
                   colorVars, exportVars>>

\* lines 149-151
MeCungHandleInputChange(prev, id, value) == Put(prev, id, DigitsOnly(value))

\* the inputs of lines 199-206: one for every node that is an input
MeCung_handleInputChange ==
    /\ game = "MeCungToanHoc"
    /\ \E k \in 1..Len(nodes), value \in TypedTexts :
          /\ nodes[k].isInput
          /\ nodes[k].id <= ClickSpan
          /\ userAnswers' = MeCungHandleInputChange(userAnswers, nodes[k].id, value)
    /\ UNCHANGED <<game, layout, legacyVars, genVars, patternVars, matchVars, legend, problems, patterns,
                   colorVars, mazeVars, exportVars, random>>

-----------------------------------------------------------------------------
(* NoiPhepTinh (equation match), src/Games/NoiPhepTinh.tsx                 *)

\* lines 23-27: the i-th base item (from 0) reads the draws 2i + 1 and 2i + 2
NoiPhepTinhBaseItem(rnd, i) ==
    LET a == getRandomInt(Draw(rnd, 2 * i + 1), 0, 5)
        b == getRandomInt(Draw(rnd, 2 * i + 2), 1, 5)
    IN [content |-> NumberToString(a) \o <<" ", "+", " ">> \o NumberToString(b),
        matchId |-> NumberToString(a + b)]

NoiPhepTinhBaseItems(rnd) == [k \in 1..5 |-> NoiPhepTinhBaseItem(rnd, k - 1)]

NoiPhepTinhLeftItem(item, i) ==
    [id |-> LeftId(i), content |-> item.content, matchId |-> item.matchId]

NoiPhepTinhRightItem(item, i) ==
    [id |-> RightId(i), content |-> item.matchId, matchId |-> item.content]

\* lines 22-35, for every order shuffleArray may draw
NoiPhepTinh_generateItems ==
    /\ game = "NoiPhepTinh"
    /\ leftItems' = MapIndexed(NoiPhepTinhBaseItems(random), NoiPhepTinhLeftItem)
    /\ rightItems' \in shuffleArray(MapIndexed(NoiPhepTinhBaseItems(random), NoiPhepTinhRightItem))
    /\ connections' = EmptyMap
    /\ selectedLeft' = None
    /\ random' = Advance(random, 10)
    /\ UNCHANGED <<game, layout, legacyVars, genVars, patternVars, answerVars, patterns, colorVars, mazeVars,
                   exportVars>>

\* lines 117-119
NoiPhepTinh_handleLeftClick ==
    /\ game = "NoiPhepTinh"
    /\ \E k \in 1..Min(MatchSpan, Len(leftItems)) : selectedLeft' = Some(leftItems[k])
    /\ UNCHANGED <<game, layout, legacyVars, genVars, patternVars, leftItems, rightItems, connections,
                   answerVars, patterns, colorVars, mazeVars, exportVars, random>>

\* handleRightClick that keeps the connection a left item already has
NoiPhepTinhHandleRightClick_firstWins(item) ==
    /\ game = "NoiPhepTinh"
    /\ IF IsSome(selectedLeft)
       THEN /\ connections' =
                  IF Get(selectedLeft).id \in DOMAIN connections
                  THEN connections
                  ELSE Put(connections, Get(selectedLeft).id, item.id)
            /\ selectedLeft' = None
       ELSE UNCHANGED <<connections, selectedLeft>>
    /\ UNCHANGED <<game, layout, legacyVars, genVars, patternVars, leftItems, rightItems, answerVars,
                   patterns, colorVars, mazeVars, exportVars, random>>

\* lines 121-126: handleRightClick(item)
NoiPhepTinhHandleRightClick(item) ==
    /\ game = "NoiPhepTinh"
    /\ IF IsSome(selectedLeft)
       THEN /\ connections' = Put(connections, Get(selectedLeft).id, item.id)
            /\ selectedLeft' = None
       ELSE UNCHANGED <<connections, selectedLeft>>
    /\ UNCHANGED <<game, layout, legacyVars, genVars, patternVars, leftItems, rightItems, answerVars,
                   patterns, colorVars, mazeVars, exportVars, random>>

\* line 143: onClick of a right item
NoiPhepTinh_handleRightClick ==
    \E k \in 1..Min(MatchSpan, Len(rightItems)) : NoiPhepTinhHandleRightClick(rightItems[k])

-----------------------------------------------------------------------------
(* NoiBong (shadow match), src/unnamed/part_007                            *)

\* lines 498-505
iconKeys == <<"leaf", "acorn", "pumpkin", "mushroom", "house">>

NoiBongItem(side(_), icons) == [k \in DOMAIN icons |-> [id |-> side(k - 1), iconId |-> icons[k]]]

\* lines 522-532, for every order shuffleArray may draw
NoiBong_generateItems ==
    /\ game = "NoiBong"
    /\ \E shuffledKeys \in shuffleArray(iconKeys) :
          LET chosenIcons == SubSeq(shuffledKeys, 1, Min(5, Len(shuffledKeys)))
          IN /\ leftItems' = NoiBongItem(LeftId, chosenIcons)
             /\ \E shuffledIcons \in shuffleArray(chosenIcons) :
                   rightItems' = NoiBongItem(RightId, shuffledIcons)
    /\ connections' = EmptyMap
    /\ selectedLeft' = None
    /\ UNCHANGED <<game, layout, legacyVars, genVars, patternVars, answerVars, patterns, colorVars, mazeVars,
                   exportVars, random>>

\* lines 614-616
NoiBong_handleLeftClick ==
    /\ game = "NoiBong"
    /\ \E k \in 1..Min(MatchSpan, Len(leftItems)) : selectedLeft' = Some(leftItems[k])
    /\ UNCHANGED <<game, layout, legacyVars, genVars, patternVars, leftItems, rightItems, connections,
                   answerVars, patterns, colorVars, mazeVars, exportVars, random>>

\* lines 618-625
NoiBong_handleRightClick ==
    /\ game = "NoiBong"
    /\ \E k \in 1..Min(MatchSpan, Len(rightItems)) :
          IF IsSome(selectedLeft)
          THEN /\ connections' =
                     IF Get(selectedLeft).iconId = rightItems[k].iconId
                     THEN Put(connections, Get(selectedLeft).id, rightItems[k].id)
                     ELSE connections
               /\ selectedLeft' = None
          ELSE UNCHANGED <<connections, selectedLeft>>
    /\ UNCHANGED <<game, layout, legacyVars, genVars, patternVars, leftItems, rightItems, answerVars,
                   patterns, colorVars, mazeVars, exportVars, random>>

-----------------------------------------------------------------------------
(* MatchingGame, the component of both matching games in the earlier       *)
(* single-file application: src/unnamed/part_007 lines 176-290 holds it    *)
(* with a check button ("MatchingGame"), src/Games/ToTracNghiem.tsx lines  *)
(* 335-467 with an export button in place of it ("MatchingGameExport").    *)

MatchingGames == {"MatchingGame", "MatchingGameExport"}

\* part_007 line 195: the icons of the type 'object'
MatchingGameIcons == <<"apple", "star", "car", "sun", "ball", "umbrella", "balloon">>

\* part_007 lines 187-197: baseItems, for the icons the shuffle kept
MatchingGameBaseItems(rnd, t, icons) ==
    IF t = "equation"
    THEN NoiPhepTinhBaseItems(rnd)
    ELSE [k \in DOMAIN icons |-> [content |-> icons[k], matchId |-> icons[k]]]

\* part_007 lines 186-205, for every order shuffleArray may draw
MatchingGame_generateItems ==
    /\ game \in MatchingGames
    /\ \E shuffledIcons \in shuffleArray(MatchingGameIcons) :
          LET baseItems ==
                  MatchingGameBaseItems(random, Get(type), SubSeq(shuffledIcons, 1, 5))
          IN /\ leftItems' = MapIndexed(baseItems, NoiPhepTinhLeftItem)
             /\ rightItems' \in shuffleArray(MapIndexed(baseItems, NoiPhepTinhRightItem))
    /\ connections' = EmptyMap
    /\ selectedLeft' = None
    /\ checked' = FALSE
    /\ random' = IF Get(type) = "equation" THEN Advance(random, 10) ELSE random
    /\ UNCHANGED <<game, layout, type, canvasDisplay, genVars, patternVars, answerVars,
                   patterns, colorVars, mazeVars, exportVars>>

\* part_007 lines 249-252; ToTracNghiem.tsx lines 406-408 have no setChecked
MatchingGame_handleLeftClick ==
    /\ game \in MatchingGames
    /\ \E k \in 1..Min(MatchSpan, Len(leftItems)) : selectedLeft' = Some(leftItems[k])
    /\ IF game = "MatchingGame" THEN checked' = FALSE ELSE checked' = checked
    /\ UNCHANGED <<game, layout, type, canvasDisplay, genVars, patternVars, leftItems,
                   rightItems, connections, answerVars, patterns, colorVars, mazeVars,
                   exportVars, random>>

\* part_007 lines 254-259
MatchingGame_handleRightClick ==
    /\ game \in MatchingGames
    /\ \E k \in 1..Min(MatchSpan, Len(rightItems)) :
          IF IsSome(selectedLeft)
          THEN /\ connections' = Put(connections, Get(selectedLeft).id, rightItems[k].id)
               /\ selectedLeft' = None
          ELSE UNCHANGED <<connections, selectedLeft>>
    /\ UNCHANGED <<game, layout, legacyVars, genVars, patternVars, leftItems, rightItems,
                   answerVars, patterns, colorVars, mazeVars, exportVars, random>>

\* part_007 line 285: the check button
MatchingGame_check ==
    /\ game = "MatchingGame"
    /\ checked' = TRUE
    /\ UNCHANGED <<game, layout, type, canvasDisplay, genVars, patternVars, matchVars,
                   answerVars, patterns, colorVars, mazeVars, exportVars, random>>

\* part_007 lines 238-239: the stroke of the line drawn from a connected left item
strokeStyle(leftId) ==
    LET left == CHOOSE i \in DOMAIN leftItems : leftItems[i].id = leftId
        right == CHOOSE i \in DOMAIN rightItems : rightItems[i].id = connections[leftId]
        isCorrect == checked /\ leftItems[left].matchId = rightItems[right].content
    IN IF checked
       THEN IF isCorrect THEN "correct-color" ELSE "incorrect-color"
       ELSE "primary-color"

-----------------------------------------------------------------------------
(* CongSo (sums), src/CongSo.tsx                                           *)

\* a sum that stops after two operands
SumOf_firstTwo(numbers) == numbers[1] + numbers[2]

\* numbers.reduce((sum, num) => sum + num, 0)
RECURSIVE SumOf(_)
SumOf(numbers) ==
    IF numbers = <<>> THEN 0 ELSE Head(numbers) + SumOf(Tail(numbers))

\* lines 18-23: the problems from the i-th on, after k numbers were drawn
RECURSIVE CongSoProblems(_, _, _, _)
CongSoProblems(rnd, i, k, newProblems) ==
    IF i >= 6
    THEN [problems |-> newProblems, drawn |-> k]
    ELSE LET numCount == getRandomInt(Draw(rnd, k + 1), 2, 3)
             numbers == [j \in 1..numCount |-> getRandomInt(Draw(rnd, k + 1 + j), 0, 9)]
         IN CongSoProblems(rnd, i + 1, k + 1 + numCount,
                           Append(newProblems,
                                  [id |-> i, numbers |-> numbers, answer |-> SumOf(numbers)]))

\* lines 17-26
generateProblems(rnd) == CongSoProblems(rnd, 0, 0, <<>>)

CongSo_generateProblems ==
    /\ game = "CongSo"
    /\ problems' = generateProblems(random).problems
    /\ userAnswers' = EmptyMap
    /\ random' = Advance(random, generateProblems(random).drawn)
    /\ UNCHANGED <<game, layout, legacyVars, genVars, patternVars, matchVars, legend, patterns, colorVars,
                   mazeVars, exportVars>>

\* lines 71-73
CongSoHandleInputChange(prev, id, value) == Put(prev, id, DigitsOnly(value))

CongSo_handleInputChange ==
    /\ game = "CongSo"
    /\ \E k \in 1..Min(ClickSpan, Len(problems)), value \in TypedTexts :
          userAnswers' = CongSoHandleInputChange(userAnswers, problems[k].id, value)
    /\ UNCHANGED <<game, layout, legacyVars, genVars, patternVars, matchVars, legend, problems, patterns,
                   colorVars, mazeVars, exportVars, random>>

-----------------------------------------------------------------------------
(* MaHoaPhepTinh with the built-in icons, src/CongSo.tsx                   *)

\* lines 111-115: Object.keys(ICONS)
MaHoaLocalIconKeys ==
    <<"holly", "gift", "skate", "gingerbread", "tree", "stocking", "igloo", "snowman",
      "bells">>

\* newLegend[key] of a legend kept as its entries in insertion order
LegendLookup(entries, key) ==
    entries[CHOOSE k \in DOMAIN entries : entries[k].icon = key].value

\* lines 138-146: the i-th problem (from 0) reads the draws 2i + 1 and 2i + 2
MaHoaLocalProblem(rnd, newLegend, i) ==
    LET s1 == MaHoaLocalIconKeys[getRandomInt(Draw(rnd, 2 * i + 1), 0, 8) + 1]
        s2 == MaHoaLocalIconKeys[getRandomInt(Draw(rnd, 2 * i + 2), 0, 8) + 1]
    IN [id |-> i, symbol1 |-> s1, symbol2 |-> s2,
        answer |-> LegendLookup(newLegend, s1) + LegendLookup(newLegend, s2)]

\* lines 131-152, for every order shuffleArray may draw
MaHoaLocal_generateGame ==
    /\ game = "MaHoaPhepTinhLocal"
    /\ \E numbers \in shuffleArray([i \in 1..9 |-> i]) :
          LET newLegend == [k \in DOMAIN MaHoaLocalIconKeys |->
                               Icon(MaHoaLocalIconKeys[k], numbers[k])]
          IN /\ legend' = newLegend
             /\ problems' = [k \in 1..12 |-> MaHoaLocalProblem(random, newLegend, k - 1)]
    /\ userAnswers' = EmptyMap
    /\ random' = Advance(random, 24)
    /\ UNCHANGED <<game, layout, legacyVars, genVars, patternVars, matchVars, patterns, colorVars, mazeVars,
                   exportVars>>

\* lines 195-197
MaHoaLocal_handleInputChange ==
    /\ game = "MaHoaPhepTinhLocal"
    /\ \E k \in 1..Min(ClickSpan, Len(problems)), value \in TypedTexts :
          userAnswers' = Put(userAnswers, problems[k].id, DigitsOnly(value))
    /\ UNCHANGED <<game, layout, legacyVars, genVars, patternVars, matchVars, legend, problems, patterns,
                   colorVars, mazeVars, exportVars, random>>

-----------------------------------------------------------------------------
(* ToMauManhGhep with the built-in templates, src/ToMauManhGhep.tsx        *)

\* lines 51-64
puzzleTemplates ==
    << [id |-> "l-shape",
        pieces |-> <<"LPiece1", "LPiece3", "LPiece4", "LPiece2", "LPiece5">>,
        colors |-> <<"#2ecc71", "#f1c40f", "#3498db", "#e74c3c", "#e84393">>,
        viewBox |-> "-2 -2 104 104"],
       [id |-> "square-shape",
        pieces |-> <<"SquarePiece1", "SquarePiece2", "SquarePiece3", "SquarePiece4">>,
        colors |-> <<"#e67e22", "#1abc9c", "#9b59b6", "#34495e">>,
        viewBox |-> "-2 -2 104 104"] >>

ToMauLocalState ==
    [currentTemplate |-> currentTemplate, referenceColors |-> referenceColors,
     puzzles |-> puzzles, selectedColor |-> selectedColor]

\* lines 73-87, for the orders shuffleArray may draw
ToMauLocalGenerateNew(rnd, s, shuffles) ==
    LET template ==
            puzzleTemplates[((Draw(rnd, 1) * Len(puzzleTemplates)) \div 10) + 1]
    IN [s EXCEPT !.currentTemplate = Some(template),
                 !.referenceColors = shuffles[1],
                 !.puzzles = [i \in 1..4 |->
                                 [id |-> i - 1,
                                  palette |-> shuffles[2][i],
                                  pieceColors |-> [k \in DOMAIN template.pieces |-> "white"]]],
                 !.selectedColor = None]

ToMauLocal_generateNew ==
    /\ game = "ToMauManhGhepLocal"
    /\ \E shuffles \in ToMauShuffles(
                          puzzleTemplates[((Draw(random, 1) * Len(puzzleTemplates)) \div 10) + 1].colors) :
          LET s1 == ToMauLocalGenerateNew(random, ToMauLocalState, shuffles)
          IN /\ currentTemplate' = s1.currentTemplate
             /\ referenceColors' = s1.referenceColors
             /\ puzzles' = s1.puzzles
             /\ selectedColor' = s1.selectedColor
    /\ random' = Advance(random, 1)
    /\ UNCHANGED <<game, layout, legacyVars, genVars, patternVars, matchVars, answerVars, patterns, mazeVars,
                   exportVars>>

\* line 170: a click on a swatch of a puzzle's palette
ToMauLocal_setSelectedColor ==
    /\ game = "ToMauManhGhepLocal"
    /\ \E p \in 1..Min(ClickSpan, Len(puzzles)) :
          \E c \in 1..Min(ClickSpan, Len(puzzles[p].palette)) :
             selectedColor' = Some(puzzles[p].palette[c])
    /\ UNCHANGED <<game, layout, legacyVars, genVars, patternVars, matchVars, answerVars, patterns,
                   currentTemplate, referenceColors, puzzles, mazeVars, exportVars, random>>

\* lines 131-141
ToMauLocal_handlePieceClick ==
    /\ game = "ToMauManhGhepLocal"
    /\ \E p \in 1..Min(ClickSpan, Len(puzzles)) :
          \E pieceIndex \in 0..(Min(ClickSpan, Len(puzzles[p].pieceColors)) - 1) :
             puzzles' = IF IsSome(selectedColor)
                        THEN handlePieceClick(puzzles, Get(selectedColor), puzzles[p].id,
                                              pieceIndex)
                        ELSE puzzles
    /\ UNCHANGED <<game, layout, legacyVars, genVars, patternVars, matchVars, answerVars, patterns,
                   currentTemplate, referenceColors, selectedColor, mazeVars, exportVars,
                   random>>

-----------------------------------------------------------------------------
(* Export.  exportPdf of every component clones the element its ref points *)
(* to, sanitizes the clone, attaches it to document.body inside a print    *)
(* container and hands the container to html2canvas; the continuation of   *)
(* the promise detaches the container and saves the document.              *)
(*                                                                         *)
(* An element tree is held by what the sanitizers and the properties read: *)
(*   view     which branch of the render is shown                          *)
(*   content  the generated puzzle that is drawn                           *)
(*   inputs   the value of every <input>, in document order                *)
(*   marked   for every element that may be highlighted, in document       *)
(*            order, its classes among selected / correct / incorrect      *)
(*   fills    the fill of every piece of every puzzle to colour            *)
(*   dots     for every user grid, 1 where the dot has the class filled    *)
(*   canvas   the lines stroked on the .matching-canvas element, if any    *)
(*   size     the style width and height set by the export, if any         *)

\* exports started and not yet unmounted, together with documents saved
MaxExports == 2

\* the sizes of the bitmaps html2canvas may resolve with
Bitmaps ==
    { [width |-> 200, height |-> 300], [width |-> 300, height |-> 200],
      [width |-> 200, height |-> 200] }

HighlightClasses == {"selected", "correct", "incorrect"}

Element(view, content, inputs, marked, fills, dots, canvas) ==
    [view |-> view, content |-> content, inputs |-> inputs, marked |-> marked,
     fills |-> fills, dots |-> dots, canvas |-> canvas, size |-> None]

RECURSIVE Flatten(_)
Flatten(seqs) == IF seqs = <<>> THEN <<>> ELSE Head(seqs) \o Flatten(Tail(seqs))

\* userAnswers[id] || ''
ValueOr(answers, id) == IF id \in DOMAIN answers THEN answers[id] ELSE <<>>

\* Node.cloneNode(true): a copy of the tree; the bitmap of a canvas is not copied
cloneNode(element) ==
    [element EXCEPT !.canvas = IF IsSome(@) THEN Some(EmptyMap) ELSE None]

\* inputs.forEach(input => { input.value = ''; }) over querySelectorAll('input')
ClearInputs(clone) == [clone EXCEPT !.inputs = [k \in DOMAIN @ |-> <<>>]]

\* querySelector(selector)?.classList.remove(...removed): the first element in
\* document order that carries a class of the selector loses the removed classes
RemoveFromFirst(clone, selector, removed) ==
    LET matches == {k \in DOMAIN clone.marked : clone.marked[k] \cap selector # {}}
    IN IF matches = {} THEN clone
       ELSE LET first == CHOOSE k \in matches : \A m \in matches : k <= m
            IN [clone EXCEPT !.marked[first] = @ \ removed]

\* querySelector('.matching-canvas') and its remove()
RemoveCanvas(clone) == [clone EXCEPT !.canvas = None]

\* querySelectorAll('.user-grid .pattern-dot') and classList.remove('filled')
UnfillUserDots(clone) ==
    [clone EXCEPT !.dots = [r \in DOMAIN @ |-> [d \in DOMAIN @[r] |-> 0]]]

\* part_001 lines 213-237: the classes of the option at the 0-based index
OptionClasses(index) ==
    IF IsSome(selection) /\ Get(selection).index = index
    THEN IF Get(selection).isCorrect THEN {"correct"} ELSE {"incorrect"}
    ELSE IF IsSome(selection) /\ ~Get(selection).isCorrect
            /\ index = Get(puzzle).correctOptionIndex
         THEN {"correct"}
         ELSE {}

\* part_001 lines 213-244: what gameContentRef points to
TimHinhDungSurface ==
    IF TimHinhDungRendered
    THEN Some(Element("puzzle", Get(puzzle), <<>>,
                      [k \in DOMAIN Get(puzzle).options |-> OptionClasses(k - 1)],
                      <<>>, <<>>, None))
    ELSE None

\* isSelected(item) of the matching games
MatchClasses(item) ==
    IF IsSome(selectedLeft) /\ Get(selectedLeft).id = item.id THEN {"selected"} ELSE {}

MatchingElement ==
    Element("puzzle", <<leftItems, rightItems>>, <<>>,
            [k \in DOMAIN leftItems |-> MatchClasses(leftItems[k])]
               \o [k \in DOMAIN rightItems |-> MatchClasses(rightItems[k])],
            <<>>, <<>>, Some(connections))

\* NoiSo.tsx lines 244-271
NoiSoSurface == IF NoiSoRendered THEN Some(MatchingElement) ELSE None

\* NoiPhepTinh.tsx lines 128-149
NoiPhepTinhSurface == Some(MatchingElement)

\* part_007 lines 627-665
NoiBongSurface == Some(MatchingElement)

\* the swatches of every palette, and the fills of every puzzle to colour
ColoringElement ==
    Element("puzzle", <<currentTemplate, referenceColors>>, <<>>,
            Flatten([p \in DOMAIN puzzles |->
                        [c \in DOMAIN puzzles[p].palette |->
                            IF selectedColor = Some(puzzles[p].palette[c])
                            THEN {"selected"} ELSE {}]]),
            [p \in DOMAIN puzzles |-> puzzles[p].pieceColors], <<>>, None)

\* part_002 lines 203-241
ToMauSurface == IF ToMauRendered THEN Some(ColoringElement) ELSE None

\* ToMauManhGhep.tsx lines 143-178
ToMauLocalSurface == Some(ColoringElement)

\* the input of every problem, or the loader or the error shown in their place
AnswersElement ==
    IF isLoading THEN Element("loader", theme, <<>>, <<>>, <<>>, <<>>, None)
    ELSE IF IsSome(error) THEN Element("error", Get(error), <<>>, <<>>, <<>>, <<>>, None)
    ELSE Element("puzzle", <<legend, problems>>,
                 [k \in DOMAIN problems |-> ValueOr(userAnswers, problems[k].id)],
                 <<>>, <<>>, <<>>, None)

\* part_004 lines 226-262: mainContentRef is set whatever is shown
MaHoaSurface == Some(AnswersElement)

\* part_004 lines 433-465: gameContentRef is set whatever is shown
DienKiTuSurface == Some(AnswersElement)

\* CongSo.tsx lines 75-90
CongSoSurface == Some(AnswersElement)

\* CongSo.tsx lines 204-234
MaHoaLocalSurface == Some(AnswersElement)

\* ToTracNghiem.tsx lines 138-169
ToTracNghiemSurface ==
    IF ToTracNghiemRendered
    THEN Some(Element("puzzle", [r \in DOMAIN patterns |-> patterns[r].model], <<>>, <<>>,
                      <<>>, [r \in DOMAIN patterns |-> patterns[r].userGrid], None))
    ELSE None

\* part_005 lines 153-213: the inputs of the nodes that are inputs
MeCungSurface ==
    LET inputNodes == SelectSeq(nodes, LAMBDA node : node.isInput)
    IN Some(Element("puzzle", <<nodes, mazeConnections>>,
                    [k \in DOMAIN inputNodes |-> ValueOr(userAnswers, inputNodes[k].id)],
                    <<>>, <<>>, <<>>, None))

\* part_005 lines 24-25
NODE_WIDTH == 60

NODE_HEIGHT == 60

RECURSIVE MaxOver(_, _, _)
MaxOver(seq, f(_), acc) ==
    IF seq = <<>> THEN acc ELSE MaxOver(Tail(seq), f, Max(acc, f(Head(seq))))

\* part_005 lines 104-123: the clone is sized to the bounds of the nodes
FitToNodes(clone) ==
    LET computedWidth ==
            IF Len(nodes) > 0
            THEN MaxOver(nodes, LAMBDA node : node.pos.x + NODE_WIDTH, 0) ELSE 0
        computedHeight ==
            IF Len(nodes) > 0
            THEN MaxOver(nodes, LAMBDA node : node.pos.y + NODE_HEIGHT, 0) ELSE 0
    IN IF computedWidth > 0 /\ computedHeight > 0
       THEN [clone EXCEPT !.size = Some([width |-> computedWidth, height |-> computedHeight])]
       ELSE clone

\* the sanitize step of every exportPdf
TimHinhDungSanitize(clone) == RemoveFromFirst(clone, HighlightClasses, HighlightClasses)

MatchingSanitize(clone) == RemoveCanvas(clone)

ColoringSanitize(clone) == RemoveFromFirst(clone, {"selected"}, {"selected"})

AnswersSanitize(clone) == ClearInputs(clone)

ToTracNghiemSanitize(clone) == UnfillUserDots(clone)

MeCungSanitize(clone) == FitToNodes(ClearInputs(clone))

\* exportPdf up to the call of html2canvas: nothing happens when the ref is
\* null; else the container is attached and a rasterization is pending
StartExport(surface, gameClone, fileName) ==
    /\ Len(printContainers) + Len(saved) < MaxExports
    /\ IF surface = None
       THEN UNCHANGED exportVars
       ELSE LET serial == Len(printContainers) + Len(saved)
            IN /\ printContainers' =
                     Append(printContainers, [serial |-> serial, gameClone |-> gameClone])
               /\ rasterizing' =
                     Append(rasterizing, [printContainer |-> serial, fileName |-> fileName])
               /\ saved' = saved
    /\ UNCHANGED <<game, layout, legacyVars, genVars, patternVars, matchVars, answerVars, patterns, colorVars,
                   mazeVars, random>>

\* the clone an export makes of the surface, or nothing without a surface
CloneOf(surface, sanitize(_)) ==
    IF surface = None THEN None ELSE sanitize(cloneNode(Get(surface)))

\* part_001 lines 171-204
TimHinhDung_exportPdf ==
    /\ game = "TimHinhDung"
    /\ StartExport(TimHinhDungSurface, CloneOf(TimHinhDungSurface, TimHinhDungSanitize),
                   "tim-hinh-dung.pdf")

\* NoiSo.tsx lines 174-208
NoiSo_exportPdf ==
    /\ game = "NoiSo"
    /\ StartExport(NoiSoSurface, CloneOf(NoiSoSurface, MatchingSanitize), "noi-so.pdf")

\* part_002 lines 139-172
ToMau_exportPdf ==
    /\ game = "ToMauManhGhep"
    /\ StartExport(ToMauSurface, CloneOf(ToMauSurface, ColoringSanitize),
                   "to-mau-manh-ghep.pdf")

\* part_004 lines 172-204
MaHoa_exportPdf ==
    /\ game = "MaHoaPhepTinh"
    /\ StartExport(MaHoaSurface, CloneOf(MaHoaSurface, AnswersSanitize),
                   "ma-hoa-phep-tinh.pdf")

\* part_004 lines 378-410
DienKiTu_exportPdf ==
    /\ game = "DienKiTu"
    /\ StartExport(DienKiTuSurface, CloneOf(DienKiTuSurface, AnswersSanitize),
                   "dien-ki-tu.pdf")

\* ToTracNghiem.tsx lines 90-122
ToTracNghiem_exportPdf ==
    /\ game = "ToTracNghiem"
    /\ StartExport(ToTracNghiemSurface,
                   CloneOf(ToTracNghiemSurface, ToTracNghiemSanitize), "to-trac-nghiem.pdf")

\* part_005 lines 91-146
MeCung_exportPdf ==
    /\ game = "MeCungToanHoc"
    /\ StartExport(MeCungSurface, CloneOf(MeCungSurface, MeCungSanitize),
                   "me-cung-toan-hoc.pdf")

\* NoiPhepTinh.tsx lines 80-114
NoiPhepTinh_exportPdf ==
    /\ game = "NoiPhepTinh"
    /\ StartExport(NoiPhepTinhSurface, CloneOf(NoiPhepTinhSurface, MatchingSanitize),
                   "noi-phep-tinh.pdf")

\* part_007 lines 577-611
NoiBong_exportPdf ==
    /\ game = "NoiBong"
    /\ StartExport(NoiBongSurface, CloneOf(NoiBongSurface, MatchingSanitize),
                   "noi-bong.pdf")

\* CongSo.tsx lines 34-68
CongSo_exportPdf ==
    /\ game = "CongSo"
    /\ StartExport(CongSoSurface, CloneOf(CongSoSurface, AnswersSanitize), "cong-so.pdf")

\* CongSo.tsx lines 160-192
MaHoaLocal_exportPdf ==
    /\ game = "MaHoaPhepTinhLocal"
    /\ StartExport(MaHoaLocalSurface, CloneOf(MaHoaLocalSurface, AnswersSanitize),
                   "ma-hoa-phep-tinh.pdf")

\* ToMauManhGhep.tsx lines 95-128
ToMauLocal_exportPdf ==
    /\ game = "ToMauManhGhepLocal"
    /\ StartExport(ToMauLocalSurface, CloneOf(ToMauLocalSurface, ColoringSanitize),
                   "to-mau-manh-ghep.pdf")

\* ToTracNghiem.tsx lines 443-460: what gameContentRef of MatchingGame points to;
\* a canvas with display 'none' is not drawn
MatchingGameSurface ==
    IF canvasDisplay = "none" THEN RemoveCanvas(MatchingElement) ELSE MatchingElement

\* ToTracNghiem.tsx lines 417-424: handleExportPdf up to the call of html2canvas;
\* the live element is rasterized with its canvas hidden
MatchingGame_handleExportPdf ==
    /\ game = "MatchingGameExport"
    /\ Len(rasterizing) + Len(saved) < MaxExports
    /\ canvasDisplay' = "none"
    /\ rasterizing' =
          Append(rasterizing,
                 [gameElement |-> RemoveCanvas(MatchingElement),
                  fileName |-> IF Get(type) = "equation"
                               THEN "noi-phep-tinh.pdf" ELSE "noi-bong.pdf"])
    /\ UNCHANGED <<game, layout, type, checked, genVars, patternVars, matchVars,
                   answerVars, patterns, colorVars, mazeVars, printContainers, saved,
                   random>>

\* new jsPDF(): a portrait A4 page, in millimetres
A4Width == 210

A4Height == 297

\* ToTracNghiem.tsx lines 427-433: the image is scaled to the width of the page
MatchingGameDocument(canvasImg, image, fileName) ==
    LET pdfWidth == A4Width
        pdfHeight == (canvasImg.height * pdfWidth) \div canvasImg.width
    IN [orientation |-> "portrait",
        unit |-> "mm",
        format |-> <<A4Width, A4Height>>,
        image |-> [data |-> image, x |-> 0, y |-> 0, width |-> pdfWidth, height |-> pdfHeight],
        fileName |-> fileName]

\* ToTracNghiem.tsx lines 424-434: the continuation of html2canvas(gameElement)
MatchingGame_html2canvas_then ==
    /\ \E k \in DOMAIN rasterizing :
          /\ "gameElement" \in DOMAIN rasterizing[k]
          /\ canvasDisplay' = "block"
          /\ saved' = Append(saved,
                             MatchingGameDocument(layout, rasterizing[k].gameElement,
                                                  rasterizing[k].fileName))
          /\ rasterizing' = RemoveAt(rasterizing, k)
    /\ UNCHANGED <<game, layout, type, checked, genVars, patternVars, matchVars,
                   answerVars, patterns, colorVars, mazeVars, printContainers, random>>

\* const margin = 40, in points
margin == 40

\* a document that is laid out in landscape also for a square bitmap
Document_squareLandscape(canvas, image, fileName) ==
    LET pdfWidth == canvas.width + margin * 2
        pdfHeight == canvas.height + margin * 2
    IN [orientation |-> IF pdfWidth >= pdfHeight THEN "landscape" ELSE "portrait",
        unit |-> "pt",
        format |-> <<pdfWidth, pdfHeight>>,
        image |-> [data |-> image, x |-> margin, y |-> margin,
                   width |-> canvas.width, height |-> canvas.height],
        fileName |-> fileName]

\* the document built from the bitmap: new jsPDF({...}) and pdf.addImage(...)
Document(canvas, image, fileName) ==
    LET pdfWidth == canvas.width + margin * 2
        pdfHeight == canvas.height + margin * 2
    IN [orientation |-> IF pdfWidth > pdfHeight THEN "landscape" ELSE "portrait",
        unit |-> "pt",
        format |-> <<pdfWidth, pdfHeight>>,
        image |-> [data |-> image, x |-> margin, y |-> margin,
                   width |-> canvas.width, height |-> canvas.height],
        fileName |-> fileName]

\* the continuation of html2canvas(printContainer, { scale: 2 }): the
\* container is removed from document.body and the document is saved
html2canvas_then ==
    /\ \E k \in DOMAIN rasterizing :
          LET canvas == layout
              printContainer ==
                  CHOOSE c \in DOMAIN printContainers :
                     printContainers[c].serial = rasterizing[k].printContainer
          IN /\ "printContainer" \in DOMAIN rasterizing[k]
             /\ saved' = Append(saved,
                                Document(canvas, printContainers[printContainer].gameClone,
                                         rasterizing[k].fileName))
             /\ printContainers' = RemoveAt(printContainers, printContainer)
             /\ rasterizing' = RemoveAt(rasterizing, k)
    /\ UNCHANGED <<game, layout, legacyVars, genVars, patternVars, matchVars, answerVars, patterns, colorVars,
                   mazeVars, random>>

\* the promise of html2canvas rejects: exportPdf gave it no rejection handler,
\* so nothing runs
html2canvas_rejected ==
    /\ \E k \in DOMAIN rasterizing : rasterizing' = RemoveAt(rasterizing, k)
    /\ UNCHANGED <<game, layout, legacyVars, genVars, patternVars, matchVars, answerVars, patterns, colorVars,
                   mazeVars, printContainers, saved, random>>

-----------------------------------------------------------------------------
(* Specifications                                                          *)

\* the hooks of the components that are not mounted keep no state
PatternUnmounted == puzzle = None /\ selection = None

MatchUnmounted ==
    leftItems = <<>> /\ rightItems = <<>> /\ selectedLeft = None /\ connections = EmptyMap

AnswerUnmounted == legend = <<>> /\ problems = <<>> /\ userAnswers = EmptyMap

ColorUnmounted ==
    currentTemplate = None /\ referenceColors = <<>> /\ puzzles = <<>> /\ selectedColor = None

MazeUnmounted == nodes = <<>> /\ mazeConnections = <<>>

ExportIdle == printContainers = <<>> /\ rasterizing = <<>> /\ saved = <<>>

\* no MatchingGame is mounted; the canvas of the other games keeps its display
MatchingGameUnmounted == type = None /\ checked = FALSE /\ canvasDisplay = ""

\* the AI-assisted games read Math.random() only inside shuffleArray
NoDraws == <<0>>

\* part_001 lines 64-67 and the mount effect of lines 165-167
TimHinhDungInit ==
    /\ game = "TimHinhDung"
    /\ theme = <<>>
    /\ puzzle = None /\ selection = None
    /\ isLoading = TRUE /\ error = None
    /\ pending = << [fn |-> "generateNew"] >>
    /\ MatchUnmounted /\ AnswerUnmounted /\ patterns = <<>> /\ ColorUnmounted
    /\ MazeUnmounted /\ ExportIdle /\ MatchingGameUnmounted /\ layout \in Bitmaps /\ random = NoDraws

\* the initial text of the theme input, NoiSo.tsx line 49
NoiSoInitialTheme == <<"d", "o", "n", " ", "g", "i", "a", "n">>

\* NoiSo.tsx lines 49-55 and the mount effect of lines 131-133
NoiSoInit ==
    /\ game = "NoiSo"
    /\ theme = NoiSoInitialTheme
    /\ isLoading = TRUE /\ error = None
    /\ leftItems = <<>> /\ rightItems = <<>> /\ selectedLeft = None
    /\ connections = EmptyMap
    /\ pending = << [fn |-> "generateNew"] >>
    /\ PatternUnmounted /\ AnswerUnmounted /\ patterns = <<>> /\ ColorUnmounted
    /\ MazeUnmounted /\ ExportIdle /\ MatchingGameUnmounted /\ layout \in Bitmaps /\ random = NoDraws

\* part_002 lines 56-61 and the mount effect of lines 133-135
ToMauInit ==
    /\ game = "ToMauManhGhep"
    /\ theme = <<>>
    /\ currentTemplate = None /\ referenceColors = <<>> /\ puzzles = <<>>
    /\ selectedColor = None
    /\ isLoading = TRUE /\ error = None
    /\ pending = << [fn |-> "generateNew"] >>
    /\ PatternUnmounted /\ MatchUnmounted /\ AnswerUnmounted /\ patterns = <<>>
    /\ MazeUnmounted /\ ExportIdle /\ MatchingGameUnmounted /\ layout \in Bitmaps /\ random = NoDraws

\* part_004 lines 87-92 and the mount effect of lines 166-168
MaHoaInit ==
    /\ game = "MaHoaPhepTinh"
    /\ theme = MaHoaInitialTheme
    /\ isLoading = TRUE /\ error = None
    /\ legend = <<>> /\ problems = <<>> /\ userAnswers = EmptyMap
    /\ pending = << [fn |-> "generateGame"] >>
    /\ PatternUnmounted /\ MatchUnmounted /\ patterns = <<>> /\ ColorUnmounted
    /\ MazeUnmounted /\ ExportIdle /\ MatchingGameUnmounted /\ layout \in Bitmaps /\ random = NoDraws

\* part_004 lines 310-315 and the mount effect of lines 371-373
DienKiTuInit ==
    /\ game = "DienKiTu"
    /\ theme = DienKiTuInitialTheme
    /\ isLoading = TRUE /\ error = None
    /\ legend = <<>> /\ problems = <<>> /\ userAnswers = EmptyMap
    /\ pending = << [fn |-> "generateGame"] >>
    /\ PatternUnmounted /\ MatchUnmounted /\ patterns = <<>> /\ ColorUnmounted
    /\ MazeUnmounted /\ ExportIdle /\ MatchingGameUnmounted /\ layout \in Bitmaps /\ random = NoDraws

\* ToTracNghiem.tsx lines 29-31 and the mount effect of lines 84-86
ToTracNghiemInit ==
    /\ game = "ToTracNghiem"
    /\ theme = <<>>
    /\ patterns = <<>>
    /\ isLoading = TRUE /\ error = None
    /\ pending = << [fn |-> "generateNew"] >>
    /\ PatternUnmounted /\ MatchUnmounted /\ AnswerUnmounted /\ ColorUnmounted
    /\ MazeUnmounted /\ ExportIdle /\ MatchingGameUnmounted /\ layout \in Bitmaps /\ random = NoDraws

InitGen ==
    \/ TimHinhDungInit
    \/ NoiSoInit
    \/ ToMauInit
    \/ MaHoaInit
    \/ DienKiTuInit
    \/ ToTracNghiemInit

NextGen ==
    \/ TimHinhDung_generateNew
    \/ TimHinhDung_settle
    \/ TimHinhDung_handleOptionClick
    \/ NoiSo_generateNew
    \/ NoiSo_settle
    \/ NoiSo_setTheme
    \/ NoiSo_handleLeftClick
    \/ NoiSo_handleRightClick
    \/ ToMau_generateNew
    \/ ToMau_settle
    \/ ToMau_setSelectedColor
    \/ ToMau_handlePieceClick
    \/ MaHoa_generateGame
    \/ MaHoa_settle
    \/ MaHoa_setTheme
    \/ MaHoa_handleInputChange
    \/ DienKiTu_generateGame
    \/ DienKiTu_settle
    \/ DienKiTu_setTheme
    \/ DienKiTu_handleInputChange
    \/ ToTracNghiem_generateNew
    \/ ToTracNghiem_settle
    \/ ToTracNghiem_handleDotClick

SpecGen == InitGen /\ [][NextGen]_vars

\* the promise a generate invocation awaits resolves or rejects: the
\* invocation leaves the queue (in this specification, by its continuation)
RequestSettles == \E i \in DOMAIN pending : pending' = RemoveAt(pending, i)

\* every request the service was sent resolves or rejects in the end
SpecGenFair == SpecGen /\ WF_pending(RequestSettles)

-----------------------------------------------------------------------------
(* The games that build their puzzles in the browser.  Their mount effect  *)
(* runs the generator synchronously, so the first state a user can act on  *)
(* holds a generated puzzle.                                               *)

\* the streams of numbers Math.random() may return
RandomStreams == [1..RandomLen -> RandomTenths]

\* no remote generation is part of these components
NoGeneration == theme = <<>> /\ isLoading = FALSE /\ error = None /\ pending = <<>>

\* part_005 lines 20-22 and the mount effect of lines 85-87
MeCungInit ==
    /\ game = "MeCungToanHoc"
    /\ \E rnd \in RandomStreams :
          /\ nodes = generateMaze(rnd).maze.nodes
          /\ mazeConnections = generateMaze(rnd).maze.connections
          /\ random = Advance(rnd, generateMaze(rnd).drawn)
    /\ legend = <<>> /\ problems = <<>> /\ userAnswers = EmptyMap
    /\ NoGeneration /\ PatternUnmounted /\ MatchUnmounted /\ patterns = <<>>
    /\ ColorUnmounted /\ ExportIdle /\ MatchingGameUnmounted /\ layout \in Bitmaps

\* NoiPhepTinh.tsx lines 13-16 and the mount effect of lines 37-39
NoiPhepTinhInit ==
    /\ game = "NoiPhepTinh"
    /\ \E rnd \in RandomStreams :
          /\ leftItems = MapIndexed(NoiPhepTinhBaseItems(rnd), NoiPhepTinhLeftItem)
          /\ rightItems \in
                shuffleArray(MapIndexed(NoiPhepTinhBaseItems(rnd), NoiPhepTinhRightItem))
          /\ random = Advance(rnd, 10)
    /\ selectedLeft = None /\ connections = EmptyMap
    /\ NoGeneration /\ PatternUnmounted /\ AnswerUnmounted /\ patterns = <<>>
    /\ ColorUnmounted /\ MazeUnmounted /\ ExportIdle /\ MatchingGameUnmounted /\ layout \in Bitmaps

\* part_007 lines 513-516 and the mount effect that follows generateItems
NoiBongInit ==
    /\ game = "NoiBong"
    /\ \E shuffledKeys \in shuffleArray(iconKeys) :
          LET chosenIcons == SubSeq(shuffledKeys, 1, Min(5, Len(shuffledKeys)))
          IN /\ leftItems = NoiBongItem(LeftId, chosenIcons)
             /\ \E shuffledIcons \in shuffleArray(chosenIcons) :
                   rightItems = NoiBongItem(RightId, shuffledIcons)
    /\ selectedLeft = None /\ connections = EmptyMap
    /\ random = NoDraws
    /\ NoGeneration /\ PatternUnmounted /\ AnswerUnmounted /\ patterns = <<>>
    /\ ColorUnmounted /\ MazeUnmounted /\ ExportIdle /\ MatchingGameUnmounted /\ layout \in Bitmaps

\* part_007 lines 177-181 and the mount effect of lines 207-209;
\* ToTracNghiem.tsx lines 336-339 have no checked
MatchingGameInit ==
    /\ game \in MatchingGames
    /\ type \in {Some("equation"), Some("object")}
    /\ \E rnd \in IF Get(type) = "equation" THEN RandomStreams ELSE {NoDraws},
          shuffledIcons \in shuffleArray(MatchingGameIcons) :
          LET baseItems ==
                  MatchingGameBaseItems(rnd, Get(type), SubSeq(shuffledIcons, 1, 5))
          IN /\ leftItems = MapIndexed(baseItems, NoiPhepTinhLeftItem)
             /\ rightItems \in shuffleArray(MapIndexed(baseItems, NoiPhepTinhRightItem))
             /\ random = IF Get(type) = "equation" THEN Advance(rnd, 10) ELSE rnd
    /\ selectedLeft = None /\ connections = EmptyMap
    /\ checked = FALSE /\ canvasDisplay = "" /\ layout \in Bitmaps
    /\ NoGeneration /\ PatternUnmounted /\ AnswerUnmounted /\ patterns = <<>>
    /\ ColorUnmounted /\ MazeUnmounted /\ ExportIdle

\* CongSo.tsx lines 13-14 and the mount effect of lines 28-30
CongSoInit ==
    /\ game = "CongSo"
    /\ \E rnd \in RandomStreams :
          /\ problems = generateProblems(rnd).problems
          /\ random = Advance(rnd, generateProblems(rnd).drawn)
    /\ legend = <<>> /\ userAnswers = EmptyMap
    /\ NoGeneration /\ PatternUnmounted /\ MatchUnmounted /\ patterns = <<>>
    /\ ColorUnmounted /\ MazeUnmounted /\ ExportIdle /\ MatchingGameUnmounted /\ layout \in Bitmaps

\* CongSo.tsx lines 126-128 and the mount effect of lines 154-156
MaHoaLocalInit ==
    /\ game = "MaHoaPhepTinhLocal"
    /\ \E rnd \in RandomStreams, numbers \in shuffleArray([i \in 1..9 |-> i]) :
          LET newLegend == [k \in DOMAIN MaHoaLocalIconKeys |->
                               Icon(MaHoaLocalIconKeys[k], numbers[k])]
          IN /\ legend = newLegend
             /\ problems = [k \in 1..12 |-> MaHoaLocalProblem(rnd, newLegend, k - 1)]
             /\ random = Advance(rnd, 24)
    /\ userAnswers = EmptyMap
    /\ NoGeneration /\ PatternUnmounted /\ MatchUnmounted /\ patterns = <<>>
    /\ ColorUnmounted /\ MazeUnmounted /\ ExportIdle /\ MatchingGameUnmounted /\ layout \in Bitmaps

\* ToMauManhGhep.tsx lines 67-70 and the mount effect of lines 89-91
ToMauLocalInit ==
    /\ game = "ToMauManhGhepLocal"
    /\ \E rnd \in RandomStreams :
          \E shuffles \in ToMauShuffles(
                             puzzleTemplates[((Draw(rnd, 1) * Len(puzzleTemplates)) \div 10)
                                             + 1].colors) :
             LET s0 == [currentTemplate |-> Some(puzzleTemplates[1]),
                        referenceColors |-> <<>>, puzzles |-> <<>>,
                        selectedColor |-> None]
                 s1 == ToMauLocalGenerateNew(rnd, s0, shuffles)
             IN /\ currentTemplate = s1.currentTemplate
                /\ referenceColors = s1.referenceColors
                /\ puzzles = s1.puzzles
                /\ selectedColor = s1.selectedColor
                /\ random = Advance(rnd, 1)
    /\ NoGeneration /\ PatternUnmounted /\ MatchUnmounted /\ AnswerUnmounted
    /\ patterns = <<>> /\ MazeUnmounted /\ ExportIdle /\ MatchingGameUnmounted /\ layout \in Bitmaps

InitLocal ==
    \/ MeCungInit
    \/ NoiPhepTinhInit
    \/ NoiBongInit
    \/ CongSoInit
    \/ MaHoaLocalInit
    \/ ToMauLocalInit
    \/ MatchingGameInit

NextLocal ==
    \/ MeCung_generateMaze
    \/ MeCung_handleInputChange
    \/ NoiPhepTinh_generateItems
    \/ NoiPhepTinh_handleLeftClick
    \/ NoiPhepTinh_handleRightClick
    \/ NoiBong_generateItems
    \/ NoiBong_handleLeftClick
    \/ NoiBong_handleRightClick
    \/ CongSo_generateProblems
    \/ CongSo_handleInputChange
    \/ MaHoaLocal_generateGame
    \/ MaHoaLocal_handleInputChange
    \/ ToMauLocal_generateNew
    \/ ToMauLocal_setSelectedColor
    \/ ToMauLocal_handlePieceClick
    \/ MatchingGame_generateItems
    \/ MatchingGame_handleLeftClick
    \/ MatchingGame_handleRightClick
    \/ MatchingGame_check

SpecLocal == InitLocal /\ [][NextLocal]_vars

\* every game, with generation and play but without export
InitPlay == InitGen \/ InitLocal

NextPlay == NextGen \/ NextLocal

SpecPlay == InitPlay /\ [][NextPlay]_vars

-----------------------------------------------------------------------------
(* Exports of the puzzle generated when a game is opened: the user plays   *)
(* and exports, and asks for no further puzzle.                            *)

\* the export is followed from the puzzles of the streams that repeat one number
ExportStreams == {rnd \in RandomStreams : \A k \in DOMAIN rnd : rnd[k] = rnd[1]}

InitExport == (InitGen \/ InitLocal) /\ random \in ExportStreams \cup {NoDraws}

NextExport ==
    \/ TimHinhDung_settle
    \/ TimHinhDung_handleOptionClick
    \/ TimHinhDung_exportPdf
    \/ NoiSo_settle
    \/ NoiSo_handleLeftClick
    \/ NoiSo_handleRightClick
    \/ NoiSo_exportPdf
    \/ ToMau_settle
    \/ ToMau_setSelectedColor
    \/ ToMau_handlePieceClick
    \/ ToMau_exportPdf
    \/ MaHoa_settle
    \/ MaHoa_handleInputChange
    \/ MaHoa_exportPdf
    \/ DienKiTu_settle
    \/ DienKiTu_handleInputChange
    \/ DienKiTu_exportPdf
    \/ ToTracNghiem_settle
    \/ ToTracNghiem_handleDotClick
    \/ ToTracNghiem_exportPdf
    \/ MeCung_handleInputChange
    \/ MeCung_exportPdf
    \/ NoiPhepTinh_handleLeftClick
    \/ NoiPhepTinh_handleRightClick
    \/ NoiPhepTinh_exportPdf
    \/ NoiBong_handleLeftClick
    \/ NoiBong_handleRightClick
    \/ NoiBong_exportPdf
    \/ CongSo_handleInputChange
    \/ CongSo_exportPdf
    \/ MaHoaLocal_handleInputChange
    \/ MaHoaLocal_exportPdf
    \/ ToMauLocal_setSelectedColor
    \/ ToMauLocal_handlePieceClick
    \/ ToMauLocal_exportPdf
    \/ MatchingGame_handleLeftClick
    \/ MatchingGame_handleRightClick
    \/ MatchingGame_check
    \/ MatchingGame_handleExportPdf
    \/ MatchingGame_html2canvas_then
    \/ html2canvas_then
    \/ html2canvas_rejected

SpecExport == InitExport /\ [][NextExport]_vars

-----------------------------------------------------------------------------
(* Properties of the AI-backed games                                       *)

\* no invocation of generate is suspended and the loader is off
GenerationEnded == pending = <<>> /\ ~isLoading

\* the notice shown is one a catch block sets, not the request for a theme
FailureNotice ==
    IsSome(error) /\ Get(error) \notin {NoiSoThemeMessage, MaHoaThemeMessage}

\* the mounted game renders a puzzle the child can play
Playable ==
    CASE game = "TimHinhDung" -> TimHinhDungRendered
      [] game = "NoiSo" -> NoiSoRendered /\ leftItems # <<>>
      [] game = "ToMauManhGhep" -> ToMauRendered
      [] game = "MaHoaPhepTinh" -> MaHoaRendered /\ legend # <<>>
      [] game = "DienKiTu" -> DienKiTuRendered /\ legend # <<>>
      [] game = "ToTracNghiem" -> ToTracNghiemRendered /\ patterns # <<>>
      [] OTHER -> TRUE

\* C1: in every AI-backed game, a generation that ended on a transport or
\* validation failure leaves a puzzle rendered and playable: the games never end
\* with only an error notice and no puzzle.
C1_FailureLeavesPuzzle == (GenerationEnded /\ FailureNotice) => Playable

\* the state holds the hard-coded default payload of the mounted game
DefaultLoaded ==
    CASE game = "TimHinhDung" ->
            /\ IsSome(puzzle)
            /\ Get(puzzle).grid = defaultPuzzle.grid
            /\ Get(puzzle).options = defaultPuzzle.options
            /\ Get(puzzle).correctOptionIndex = defaultPuzzle.correctOptionIndex
      [] game = "NoiSo" ->
            /\ Len(leftItems) = Len(NoiSoDefaultGameData)
            /\ \A d \in DOMAIN NoiSoDefaultGameData :
                  \E k \in DOMAIN leftItems :
                     /\ leftItems[k].svg = NoiSoDefaultGameData[d].svg
                     /\ leftItems[k].count = NoiSoDefaultGameData[d].count
      [] game = "ToMauManhGhep" -> currentTemplate = Some(ToMauDefaultGameData)
      [] OTHER -> FALSE

\* C2: in the number match, the pattern find and the AI colouring puzzle, once a
\* generation has ended with the default payload loaded, the error notice is
\* still set: loading the fallback does not clear it.
C2_FallbackKeepsNotice == (GenerationEnded /\ DefaultLoaded) => IsSome(error)

\* C3: in the pattern find, whatever the interleaving of generations and clicks,
\* the stored selection is about the puzzle displayed: its isCorrect says
\* whether its index is the correctOptionIndex of that puzzle.
C3_SelectionMatchesPuzzle ==
    (game = "TimHinhDung" /\ IsSome(puzzle) /\ IsSome(selection)) =>
        (Get(selection).isCorrect =
            (Get(selection).index = Get(puzzle).correctOptionIndex))

\* the legend maps 9 distinct symbols one-to-one onto 1..9
LegendIsBijection(l) ==
    /\ Len(l) = 9
    /\ \A i, j \in DOMAIN l : i # j => l[i].icon # l[j].icon
    /\ { l[i].value : i \in DOMAIN l } = 1..9

\* C6: whenever the symbol math shows a legend (accepted from the service or
\* loaded as the fallback), it is a bijection between 9 symbols and 1..9.
C6_LegendIsBijection ==
    (game = "MaHoaPhepTinh" /\ legend # <<>>) => LegendIsBijection(legend)

\* the puzzle has 9 cells of which exactly one is 'MISSING', 5 options and a
\* correctOptionIndex among them
FullyValid(p) ==
    /\ Len(p.grid) = 9
    /\ Cardinality({ k \in DOMAIN p.grid : p.grid[k] = "MISSING" }) = 1
    /\ Len(p.options) = 5
    /\ p.correctOptionIndex \in 0..4

\* C7: the pattern find only ever displays a fully valid puzzle: a remote
\* payload that is not is rejected and the fallback is loaded.
C7_OnlyValidPuzzles ==
    (game = "TimHinhDung" /\ IsSome(puzzle)) => FullyValid(Get(puzzle))

\* the errors a failed request may throw, by kind
RateLimitErrors == [isError : {TRUE}, message : RateLimitMessages]

OtherErrors == [isError : {TRUE}, message : OtherMessages \cup {SyntaxErrorMessage}]

\* two states a catch block leaves differ at most in the text of the notice
SameButNoticeText(a, b) ==
    /\ [a EXCEPT !.error = None] = [b EXCEPT !.error = None]
    /\ (a.error = None) <=> (b.error = None)

\* C14: from one state, a rate-limit failure and any other failure of a
\* request lead every AI-assisted game to the same puzzle state by the same
\* control flow; only the text of the notice differs.
C14_FailureKindsAgree ==
    pending # <<>> =>
       \A e1 \in RateLimitErrors, e2 \in OtherErrors :
          CASE game = "TimHinhDung" ->
                  SameButNoticeText(TimHinhDungCatch(TimHinhDungState, e1),
                                    TimHinhDungCatch(TimHinhDungState, e2))
            [] game = "NoiSo" ->
                  \A baseItems \in shuffleArray(NoiSoDefaultGameData) :
                     \A newRightItems \in shuffleArray(MapIndexed(baseItems, NoiSoRightItem)) :
                        SameButNoticeText(
                           NoiSoCatch(NoiSoState, e1, baseItems, newRightItems),
                           NoiSoCatch(NoiSoState, e2, baseItems, newRightItems))
            [] game = "ToMauManhGhep" ->
                  \A shuffles \in ToMauShuffles(ToMauDefaultGameData.colors) :
                     SameButNoticeText(ToMauCatch(ToMauState, e1, shuffles),
                                       ToMauCatch(ToMauState, e2, shuffles))
            [] game = "MaHoaPhepTinh" ->
                  SameButNoticeText(MaHoaCatch(MaHoaState, e1), MaHoaCatch(MaHoaState, e2))
            [] game = "DienKiTu" ->
                  SameButNoticeText(DienKiTuCatch(DienKiTuState, e1),
                                    DienKiTuCatch(DienKiTuState, e2))
            [] game = "ToTracNghiem" ->
                  SameButNoticeText(ToTracNghiemCatch(ToTracNghiemState, e1),
                                    ToTracNghiemCatch(ToTracNghiemState, e2))
            [] OTHER -> TRUE

\* the text is empty or consists of blanks only
Blank_theme == \A k \in DOMAIN theme : theme[k] = " "

\* a generate of a theme-driven game that finds the theme blank
BlankThemeGenerate ==
    (NoiSo_generateNew \/ MaHoa_generateGame \/ DienKiTu_generateGame) /\ Blank_theme =>
       /\ pending' = pending
       /\ IsSome(error')
       /\ ~isLoading'
       /\ UNCHANGED <<theme, matchVars, answerVars>>

\* C15: in NoiSo, MaHoaPhepTinh and DienKiTu a generate invoked with an empty
\* or whitespace-only theme issues no request, sets an error message,
\* substitutes no fallback, leaves items, legend, problems, answers and
\* connections unchanged and leaves the loading flag false.
C15_BlankThemeBlocksGeneration == [][BlankThemeGenerate]_vars

\* the notice of the blank theme is shown while an earlier request is pending
C15_BlankThemeWitness ==
    /\ game \in {"NoiSo", "MaHoaPhepTinh", "DienKiTu"}
    /\ Blank_theme
    /\ error \in {Some(NoiSoThemeMessage), Some(MaHoaThemeMessage)}
    /\ ~isLoading
    /\ pending # <<>>

-----------------------------------------------------------------------------
(* Properties of the games that build their puzzles in the browser         *)

\* the number a run of decimal digits writes
RECURSIVE DigitsValue(_)
DigitsValue(chars) ==
    IF chars = <<>> THEN 0
    ELSE LET last == chars[Len(chars)]
             d == (CHOOSE k \in DOMAIN DigitChars : DigitChars[k] = last) - 1
         IN 10 * DigitsValue(SubSeq(chars, 1, Len(chars) - 1)) + d

\* the value an edge label "+n" or "-n" leads to when read as arithmetic
Replay(value, op) ==
    IF Head(op) = "+" THEN value + DigitsValue(Tail(op)) ELSE value - DigitsValue(Tail(op))

\* C4: in every generated maze, replaying the recorded edge operations
\* (+n / -n) in order from the start node's value reproduces the recorded
\* value of every node exactly, and no node value is negative.
C4_ReplayReproducesValues ==
    game = "MeCungToanHoc" =>
        /\ \A k \in DOMAIN mazeConnections :
              /\ mazeConnections[k].from = nodes[k]
              /\ mazeConnections[k].to = nodes[k + 1]
              /\ Replay(nodes[k].value, mazeConnections[k].op) = nodes[k + 1].value
        /\ \A k \in DOMAIN nodes : nodes[k].value >= 0

\* the answer a left item asks for, and the value a right item offers
LeftAnswer(item) ==
    CASE game \in {"NoiPhepTinh"} \cup MatchingGames -> item.matchId
      [] game = "NoiBong" -> item.iconId
      [] game = "NoiSo" -> item.count

RightValue(item) ==
    CASE game \in {"NoiPhepTinh"} \cup MatchingGames -> item.content
      [] game = "NoiBong" -> item.iconId
      [] game = "NoiSo" -> item.count

\* C5: in every generated matching game (NoiPhepTinh, NoiBong, NoiSo) the
\* right column is a permutation of the answers of the left column, and every
\* left item is answered by exactly one right item.
C5_OneAnswerForEachLeftItem ==
    game \in {"NoiPhepTinh", "NoiBong", "NoiSo"} =>
        /\ Len(rightItems) = Len(leftItems)
        /\ \A i \in DOMAIN leftItems :
              Cardinality({j \in DOMAIN rightItems :
                              RightValue(rightItems[j]) = LeftAnswer(leftItems[i])})
                 = Cardinality({j \in DOMAIN leftItems :
                                   LeftAnswer(leftItems[j]) = LeftAnswer(leftItems[i])})
        /\ \A i \in DOMAIN leftItems :
              Cardinality({j \in DOMAIN rightItems :
                              RightValue(rightItems[j]) = LeftAnswer(leftItems[i])}) = 1

\* the exact sum of two or three operands
ExactSum(numbers) == numbers[1] + numbers[2] + (IF Len(numbers) = 3 THEN numbers[3] ELSE 0)

\* C13: the sum generator produces exactly 6 problems, each with 2 or 3
\* operands in 0..9 and an answer equal to the sum of its operands; in the
\* local symbol game every answer is the sum of the legend values of the two
\* symbols of its problem.
C13_AnswersAreExactSums ==
    /\ game = "CongSo" =>
          /\ Len(problems) = 6
          /\ \A k \in DOMAIN problems :
                /\ Len(problems[k].numbers) \in {2, 3}
                /\ \A j \in DOMAIN problems[k].numbers : problems[k].numbers[j] \in 0..9
                /\ problems[k].answer = ExactSum(problems[k].numbers)
    /\ game = "MaHoaPhepTinhLocal" =>
          \A k \in DOMAIN problems :
             \E a, b \in DOMAIN legend :
                /\ legend[a].icon = problems[k].symbol1
                /\ legend[b].icon = problems[k].symbol2
                /\ problems[k].answer = legend[a].value + legend[b].value

\* a generated sum of three operands that exceeds one digit
C13_ThreeOperandWitness ==
    /\ game = "CongSo"
    /\ \E k \in DOMAIN problems :
          Len(problems[k].numbers) = 3 /\ problems[k].answer > 9

-----------------------------------------------------------------------------
(* Properties of the matching games                                        *)

\* the items of a column that carry an identifier
ItemsWithId(items, id) == { items[k] : k \in { j \in DOMAIN items : items[j].id = id } }

\* every recorded connection joins a left and a right item of equal match value
ConnectionsAgree ==
    \A leftId \in DOMAIN connections :
       /\ ItemsWithId(leftItems, leftId) # {}
       /\ ItemsWithId(rightItems, connections[leftId]) # {}
       /\ \A l \in ItemsWithId(leftItems, leftId) :
             \A r \in ItemsWithId(rightItems, connections[leftId]) :
                LeftAnswer(l) = RightValue(r)

\* a click on a right item while a left item is selected clears the selection
\* and either changes no connection or records one to a right item of the
\* selected item's match value
ValidatedConnect ==
    (NoiSo_handleRightClick \/ NoiBong_handleRightClick) /\ IsSome(selectedLeft) =>
       /\ selectedLeft' = None
       /\ \/ connections' = connections
          \/ \E k \in DOMAIN rightItems :
                /\ RightValue(rightItems[k]) = LeftAnswer(Get(selectedLeft))
                /\ connections' = Put(connections, Get(selectedLeft).id, rightItems[k].id)

\* C11: in NoiSo and NoiBong every recorded connection joins a left item and a
\* right item of equal match value, and a click on a right item that does not
\* match the selected left item records nothing, keeps the connections and
\* clears the selection.
C11_OnlyMatchingPairsConnected ==
    /\ [](game \in {"NoiSo", "NoiBong"} => ConnectionsAgree)
    /\ [][ValidatedConnect]_vars

\* a connection is recorded, nothing is selected, and an unconnected left
\* item has a right item within reach that does not answer it
C11_MismatchWitness ==
    /\ game \in {"NoiSo", "NoiBong"}
    /\ connections # EmptyMap
    /\ selectedLeft = None
    /\ \E i, j \in 1..MatchSpan :
          /\ leftItems[i].id \notin DOMAIN connections
          /\ LeftAnswer(leftItems[i]) # RightValue(rightItems[j])

\* the connections after the left item of the identifier is connected to the
\* right item: its own entry is the right item's identifier, the others stay
Reconnected(prev, leftId, rightId) ==
    [l \in DOMAIN prev \cup {leftId} |-> IF l = leftId THEN rightId ELSE prev[l]]

\* a click on a right item of the equation match while a left item is selected
LastWriteWins ==
    \A k \in DOMAIN rightItems :
       NoiPhepTinhHandleRightClick(rightItems[k]) /\ IsSome(selectedLeft) =>
          connections' = Reconnected(connections, Get(selectedLeft).id, rightItems[k].id)

\* a click on a right item of the other matching games either keeps the
\* connections or reconnects the selected left item alone
ValidatedLastWriteWins ==
    (NoiSo_handleRightClick \/ NoiBong_handleRightClick \/ MatchingGame_handleRightClick)
       /\ IsSome(selectedLeft) =>
       \/ connections' = connections
       \/ \E k \in DOMAIN rightItems :
             connections' = Reconnected(connections, Get(selectedLeft).id, rightItems[k].id)

\* C12: in every matching game a left item has at most one connection:
\* connecting a left item that is already connected replaces its connection
\* by the right item clicked last, and the connections of all other left
\* items stay as they were.
C12_LastWriteWins == [][LastWriteWins /\ ValidatedLastWriteWins]_vars

\* both left items within reach are connected, to different right items
C12_ReconnectWitness ==
    /\ game = "NoiPhepTinh"
    /\ DOMAIN connections = {LeftId(0), LeftId(1)}
    /\ connections[LeftId(0)] # connections[LeftId(1)]
    /\ selectedLeft = None

-----------------------------------------------------------------------------
(* Properties of the export                                                *)

\* the clones that are attached for rasterization or were rasterized
ExportedClones ==
    { printContainers[k].gameClone : k \in DOMAIN printContainers }
       \cup { saved[k].image.data : k \in DOMAIN saved }

\* the clone shows nothing the user did
Blank(clone) ==
    /\ \A k \in DOMAIN clone.inputs : clone.inputs[k] = <<>>
    /\ \A p \in DOMAIN clone.fills :
          \A k \in DOMAIN clone.fills[p] : clone.fills[p][k] = "white"
    /\ \A r \in DOMAIN clone.dots : \A d \in DOMAIN clone.dots[r] : clone.dots[r][d] = 0
    /\ IsSome(clone.canvas) => Get(clone.canvas) = EmptyMap
    /\ \A k \in DOMAIN clone.marked : "selected" \notin clone.marked[k]

\* C8: the sanitized clone that is rasterized carries no typed answer, no
\* painted piece colour, no filled user dot, no connection line and no
\* selection, whatever the user did before the export.
C8_ExportShowsNoUserWork == \A clone \in ExportedClones : Blank(clone)

\* C9: after the sanitize step no element of the clone carries one of the
\* classes selected, correct and incorrect.
C9_NoHighlightClassLeft ==
    \A k \in DOMAIN printContainers :
       \A m \in DOMAIN printContainers[k].gameClone.marked :
          printContainers[k].gameClone.marked[m] \cap HighlightClasses = {}

\* C10: once every rasterization has settled, by success or by failure, no
\* print container is attached to the document any more.
C10_NoContainerLeftBehind == (rasterizing = <<>>) => (printContainers = <<>>)

\* everything the live view shows and the hooks hold
LiveView ==
    <<genVars, patternVars, matchVars, answerVars, patterns, colorVars, mazeVars, legacyVars>>

\* two documents show the same: page, placement and image agree
SameDocument(d1, d2) ==
    /\ d1.format = d2.format
    /\ d1.orientation = d2.orientation
    /\ d1.image = d2.image

\* C16: export is a function of the puzzle state and leaves that state
\* untouched: no step of an export changes the live view, the answers, the
\* connections or the selection, and the exports of one puzzle, also when they
\* overlap, rasterize identical sanitized clones and save documents of
\* identical dimensions.
C16_ExportRepeatsAndLeavesState ==
    /\ [][exportVars' # exportVars => UNCHANGED LiveView]_vars
    /\ [](\A c1, c2 \in ExportedClones : c1.content = c2.content => c1 = c2)
    /\ [](\A k1, k2 \in DOMAIN saved :
             saved[k1].image.data.content = saved[k2].image.data.content =>
                SameDocument(saved[k1], saved[k2]))

NoSurfaceAvailable ==
    \/ isLoading
    \/ game \in {"MaHoaPhepTinh", "DienKiTu", "ToTracNghiem"} /\ IsSome(error)
    \/ game = "TimHinhDung" /\ puzzle = None
    \/ game = "ToMauManhGhep" /\ currentTemplate = None

\* C18: an export invoked while no puzzle surface is available is a silent
\* no-op: it mounts no off-screen container, starts no rasterization and so
\* produces no document.
C18_NoSurfaceNoExport ==
    [][NoSurfaceAvailable =>
          /\ Len(printContainers') <= Len(printContainers)
          /\ Len(rasterizing') <= Len(rasterizing)]_vars

\* the right item shows the answer the left item asks for
Answers(right, left) == RightValue(right) = LeftAnswer(left)

\* C19: in every matching game whose items carry a match-key, a left and a
\* right item form a correct pair exactly when their match-keys are equal:
\* left.matchId = right.matchId holds for the right item that answers the
\* left item and for no other right item.
C19_EqualMatchIdIsCorrectPair ==
    game \in {"NoiPhepTinh"} \cup MatchingGames =>
        \A i \in DOMAIN leftItems : \A j \in DOMAIN rightItems :
            leftItems[i].matchId = rightItems[j].matchId
               <=> Answers(rightItems[j], leftItems[i])

\* the left items whose connection a step created or changed
Redrawn == {l \in DOMAIN connections' : l \notin DOMAIN connections \/ connections'[l] # connections[l]}

\* C20: in the matching game that validates on demand, a click on a right
\* item while a left item is selected records the connection whether or not
\* it is correct, and a connection created or changed after the last check
\* is drawn in the neutral colour, neither correct nor incorrect, until the
\* check is requested again.
C20_ColouringOnlyAfterCheck ==
    [][game = "MatchingGame" =>
          /\ MatchingGame_handleRightClick /\ IsSome(selectedLeft) =>
                \E k \in DOMAIN rightItems :
                   connections' = Put(connections, Get(selectedLeft).id, rightItems[k].id)
          /\ \A l \in Redrawn : strokeStyle(l)' = "primary-color"]_vars

-----------------------------------------------------------------------------
(* Properties of overlapping generations                                   *)

\* a generate click of an AI-assisted game that gets as far as its request
IssuesRequest ==
    /\ \/ TimHinhDung_generateNew
       \/ NoiSo_generateNew
       \/ ToMau_generateNew
       \/ MaHoa_generateGame
       \/ DienKiTu_generateGame
       \/ ToTracNghiem_generateNew
    /\ ~(game \in {"NoiSo", "MaHoaPhepTinh", "DienKiTu"} /\ Blank_theme)

\* the click adds a request of its own and keeps the ones that are pending
StartsOwnRequest ==
    IssuesRequest =>
       /\ Len(pending') = Len(pending) + 1
       /\ SubSeq(pending', 1, Len(pending)) = pending

\* a pending request settles
SettleStep == Len(pending') < Len(pending)

\* the puzzle state is the one a continuation leaves behind: a fresh puzzle
\* with nothing played on it, or the notice of a failure
FreshOutcome ==
    CASE game = "TimHinhDung" -> IsSome(puzzle)
      [] game = "NoiSo" ->
            /\ Len(leftItems) >= 5
            /\ Len(rightItems) = Len(leftItems)
            /\ connections = EmptyMap
            /\ selectedLeft = None
      [] game = "ToMauManhGhep" ->
            /\ IsSome(currentTemplate)
            /\ selectedColor = None
            /\ \A i \in DOMAIN puzzles : \A k \in DOMAIN puzzles[i].pieceColors :
                  puzzles[i].pieceColors[k] = "white"
      [] game \in {"MaHoaPhepTinh", "DienKiTu"} ->
            IsSome(error) \/ (legend # <<>> /\ userAnswers = EmptyMap)
      [] game = "ToTracNghiem" ->
            \/ IsSome(error)
            \/ /\ Len(patterns) = 8
               /\ \A r \in DOMAIN patterns : \A c \in DOMAIN patterns[r].userGrid :
                     patterns[r].userGrid[c] = 0
      [] OTHER -> TRUE

\* whichever pending request settles, and however many others are pending,
\* it alone leaves the queue and its outcome becomes the puzzle state
AppliesItsResult ==
    SettleStep =>
       /\ \E i \in DOMAIN pending : pending' = RemoveAt(pending, i)
       /\ FreshOutcome'

FreshRow(row, index) ==
    /\ row.id = index
    /\ Len(row.model) = 25
    /\ row.userGrid = [d \in 1..25 |-> 0]

\* C22: the dot-pattern generation is all-or-nothing over its batch of 8
\* requests: when a generation settles, the pattern list is either unchanged
\* (a request failed or a grid was not of length 25) or consists of exactly 8
\* fresh rows, each with a 25-cell model and a user grid of 25 zeros; never a
\* mix of old and new rows, never fewer than 8 rows.
C22_BatchIsAllOrNothing ==
    [][game = "ToTracNghiem" /\ SettleStep =>
          \/ /\ patterns' = patterns
             /\ IsSome(error')
          \/ /\ Len(patterns') = 8
             /\ \A r \in DOMAIN patterns' : FreshRow(patterns'[r], r - 1)]_vars

\* a generation failed after an earlier one had succeeded: its rows are kept
C22_FailureKeepsRowsWitness ==
    /\ game = "ToTracNghiem"
    /\ GenerationEnded
    /\ IsSome(error)
    /\ Len(patterns) = 8

-----------------------------------------------------------------------------
(* Properties of the user's interactions                                   *)

\* what the child's work is compared with: the generated puzzle of every game
AnswerKey ==
    <<problems, legend, leftItems, rightItems, referenceColors, currentTemplate,
      [r \in DOMAIN patterns |-> patterns[r].model], puzzle, nodes, mazeConnections>>

\* the handlers of the user's work on a puzzle
Interaction ==
    \/ MaHoa_handleInputChange
    \/ DienKiTu_handleInputChange
    \/ CongSo_handleInputChange
    \/ MaHoaLocal_handleInputChange
    \/ MeCung_handleInputChange
    \/ NoiSo_handleLeftClick
    \/ NoiSo_handleRightClick
    \/ NoiPhepTinh_handleLeftClick
    \/ NoiPhepTinh_handleRightClick
    \/ NoiBong_handleLeftClick
    \/ NoiBong_handleRightClick
    \/ MatchingGame_handleLeftClick
    \/ MatchingGame_handleRightClick
    \/ MatchingGame_check
    \/ TimHinhDung_handleOptionClick
    \/ ToMau_setSelectedColor
    \/ ToMau_handlePieceClick
    \/ ToMauLocal_setSelectedColor
    \/ ToMauLocal_handlePieceClick
    \/ ToTracNghiem_handleDotClick

\* C23: no user interaction changes the answer key: typing an answer,
\* clicking a left or right item, painting a piece or toggling a dot leaves
\* the generated problems, legend, left and right items, reference colours
\* and model grids exactly as they were.
C23_InteractionKeepsAnswerKey == [][Interaction => UNCHANGED AnswerKey]_vars

\* a dot was toggled in the user grid of a generated row
C23_DotToggledWitness ==
    /\ game = "ToTracNghiem"
    /\ \E r \in DOMAIN patterns : patterns[r].userGrid[1] = 1 /\ Len(patterns[r].model) = 25

\* the games whose answers are numbers
NumericGames == {"CongSo", "MaHoaPhepTinh", "MaHoaPhepTinhLocal", "MeCungToanHoc"}

\* an input event of a numeric-answer game
NumericInput ==
    \/ CongSo_handleInputChange
    \/ MaHoa_handleInputChange
    \/ MaHoaLocal_handleInputChange
    \/ MeCung_handleInputChange

\* the answer of one identifier becomes the digits of a typed value, in their
\* order; the answers of the other identifiers stay
ReplacesOwnAnswer ==
    \E id \in DOMAIN userAnswers' :
       /\ DOMAIN userAnswers' = DOMAIN userAnswers \cup {id}
       /\ \A other \in DOMAIN userAnswers \ {id} : userAnswers'[other] = userAnswers[other]
       /\ \E value \in TypedTexts :
             userAnswers'[id] = SelectSeq(value, LAMBDA c : c \in {DigitChars[k] : k \in 1..10})

ColoringGames == {"ToMauManhGhep", "ToMauManhGhepLocal"}

\* puzzles, pieces and swatches the algebra of painting is worked out for
PaintSpan == 2

\* b is a with piece k (from 0) of puzzle i set to color, and nothing else changed
PaintedOnly(a, b, i, k, color) ==
    /\ DOMAIN b = DOMAIN a
    /\ \A j \in DOMAIN a :
          /\ b[j].id = a[j].id
          /\ b[j].palette = a[j].palette
          /\ DOMAIN b[j].pieceColors = DOMAIN a[j].pieceColors
          /\ \A q \in DOMAIN a[j].pieceColors :
                b[j].pieceColors[q] = IF j = i /\ q = k + 1 THEN color ELSE a[j].pieceColors[q]

\* painting a piece twice with one colour equals painting it once, and of two
\* paints of a piece the later colour stays
PaintIsLastWriteWins ==
    \A i \in 1..Min(PaintSpan, Len(puzzles)) :
       \A k \in 0..(Min(PaintSpan, Len(puzzles[i].pieceColors)) - 1) :
          \A s1, s2 \in 1..Min(PaintSpan, Len(puzzles[i].palette)) :
             LET c1 == puzzles[i].palette[s1]
                 c2 == puzzles[i].palette[s2]
                 once == handlePieceClick(puzzles, c1, puzzles[i].id, k)
             IN /\ PaintedOnly(puzzles, once, i, k, c1)
                /\ handlePieceClick(once, c1, puzzles[i].id, k) = once
                /\ PaintedOnly(puzzles, handlePieceClick(once, c2, puzzles[i].id, k), i, k, c2)

\* a click on a piece paints that piece with the armed colour, or does
\* nothing when no colour is armed
PieceClickPaintsOne ==
    (ToMau_handlePieceClick \/ ToMauLocal_handlePieceClick) =>
       /\ UNCHANGED <<selectedColor, currentTemplate, referenceColors>>
       /\ IF IsSome(selectedColor)
          THEN \E i \in DOMAIN puzzles : \E k \in 0..(Len(puzzles[i].pieceColors) - 1) :
                  PaintedOnly(puzzles, puzzles', i, k, Get(selectedColor))
          ELSE puzzles' = puzzles

\* C25: in the colouring game a click on a piece while a colour is armed sets
\* exactly that piece of that puzzle to the armed colour and changes no other
\* piece or puzzle; a click with no colour armed changes nothing; painting a
\* piece twice with the same colour equals painting it once, and after
\* several paints the piece shows the last colour applied.
C25_PaintSetsOnePiece ==
    /\ [](game \in ColoringGames => PaintIsLastWriteWins)
    /\ [][PieceClickPaintsOne]_vars

\* one piece of one puzzle carries the armed colour, every other piece is blank
C25_OnePiecePaintedWitness ==
    /\ game \in ColoringGames
    /\ IsSome(selectedColor)
    /\ \E i \in DOMAIN puzzles : \E k \in DOMAIN puzzles[i].pieceColors :
          /\ puzzles[i].pieceColors[k] = Get(selectedColor)
          /\ \A j \in DOMAIN puzzles : \A q \in DOMAIN puzzles[j].pieceColors :
                (j # i \/ q # k) => puzzles[j].pieceColors[q] = "white"

\* rows and dots the algebra of the toggle is worked out for
DotSpan == 2

\* b is a with dot d (from 0) of row r flipped between 0 and 1, and nothing
\* else changed
FlippedOnly(a, b, r, d) ==
    /\ DOMAIN b = DOMAIN a
    /\ \A j \in DOMAIN a :
          /\ b[j].id = a[j].id
          /\ b[j].model = a[j].model
          /\ DOMAIN b[j].userGrid = DOMAIN a[j].userGrid
          /\ \A q \in DOMAIN a[j].userGrid :
                b[j].userGrid[q] = IF j = r /\ q = d + 1
                                   THEN 1 - a[j].userGrid[q]
                                   ELSE a[j].userGrid[q]

\* two clicks on one dot give the user grid back
ToggleIsInvolution ==
    \A r \in 1..Min(DotSpan, Len(patterns)) : \A d \in 0..(DotSpan - 1) :
       LET once == handleDotClick(patterns, patterns[r].id, d)
       IN /\ FlippedOnly(patterns, once, r, d)
          /\ handleDotClick(once, patterns[r].id, d) = patterns

\* C26: in the dot-pattern game every cell of every user grid is 0 or 1 in
\* every reachable state; a click on a cell flips exactly that cell of that
\* row and changes no other cell, row or model grid, and two clicks on the
\* same cell restore the previous user grid.
C26_DotClickFlipsOneCell ==
    /\ [](game = "ToTracNghiem" =>
             /\ \A r \in DOMAIN patterns : \A q \in DOMAIN patterns[r].userGrid :
                   patterns[r].userGrid[q] \in {0, 1}
             /\ ToggleIsInvolution)
    /\ [][ToTracNghiem_handleDotClick =>
             \E r \in DOMAIN patterns : \E d \in 0..24 :
                FlippedOnly(patterns, patterns', r, d)]_vars

\* the first dot of the first row is the only one filled in
C26_OneDotFilledWitness ==
    /\ game = "ToTracNghiem"
    /\ ToTracNghiemRendered
    /\ Len(patterns) = 8
    /\ \A r \in DOMAIN patterns : \A q \in DOMAIN patterns[r].userGrid :
          patterns[r].userGrid[q] = IF r = 1 /\ q = 1 THEN 1 ELSE 0

-----------------------------------------------------------------------------
(* Properties of the maze                                                  *)

\* C27: in every generated maze the first node is a displayed (non-input)
\* node and the only one; every later node, the terminal node included, is
\* an input node.
C27_OnlyFirstNodeDisplayed ==
    (game = "MeCungToanHoc" /\ nodes # <<>>) =>
        /\ ~nodes[1].isInput
        /\ \A k \in 2..Len(nodes) : nodes[k].isInput

-----------------------------------------------------------------------------
(* Properties of the connections across regenerations                      *)

AllMatchingGames == {"NoiSo", "NoiPhepTinh", "NoiBong"} \cup MatchingGames

\* C28: in every reachable state of a matching game, after any sequence of
\* clicks and regenerations, every recorded connection goes from the id of a
\* current left item to the id of a current right item, and the selected
\* item, if any, is a current left item: nothing refers to an item of a
\* puzzle that has been replaced.
C28_ConnectionsReferToCurrentItems ==
    game \in AllMatchingGames =>
        /\ \A l \in DOMAIN connections :
              /\ \E k \in DOMAIN leftItems : leftItems[k].id = l
              /\ \E k \in DOMAIN rightItems : rightItems[k].id = connections[l]
        /\ IsSome(selectedLeft) => \E k \in DOMAIN leftItems : leftItems[k] = Get(selectedLeft)

\* a connection and a selection made on a puzzle that a generation delivered
C28_PlayedAfterRegenerationWitness ==
    /\ game = "NoiSo"
    /\ pending = <<>>
    /\ connections # EmptyMap
    /\ IsSome(selectedLeft)
    /\ Get(selectedLeft).svg = "ai-svg"

-----------------------------------------------------------------------------
(* Properties of the loading flag                                          *)

\* C29: in the AI-assisted games the loading flag is true in every state in
\* which at least one generation request is still pending, also when several
\* generate requests overlap, so that the puzzle can be neither clicked nor
\* exported while a request is in flight.
C29_LoadingWhilePending == pending # <<>> => isLoading

\* C30: if every request that was issued resolves or rejects in the end,
\* every generate invocation of an AI-assisted game finishes with the
\* loading flag false, whether the response was valid, invalid or an error:
\* no game stays in the loading state forever, and none shows the loader
\* once no request is pending.
C30_LoadingEnds ==
    /\ [](pending = <<>> => ~isLoading)
    /\ isLoading ~> ~isLoading

\* a generation that failed has finished with the loader off
C30_FailedAndFinishedWitness ==
    /\ game = "DienKiTu"
    /\ pending = <<>>
    /\ ~isLoading
    /\ IsSome(error)
    /\ Get(error) # MaHoaThemeMessage

====
